---------------------------- MODULE Spec2Model ----------------------------
(***************************************************************************)
(* Print-mech analyser: the framed byte protocol (FrameProtocol), the      *)
(* printout builder (PrintoutBuilder), the analyser loop (MechAnalyser)    *)
(* and the worker boundary (MechAnalyserServer), modelled from             *)
(* src/print_mech_analyser/analyser/{protocol,analyser,server}.py.         *)
(*                                                                         *)
(* Bytes are integers 0..255.  A Python "T | None" value is modelled as    *)
(* None or Some(v).                                                        *)
(***************************************************************************)
EXTENDS Integers, Sequences, FiniteSets, TLC

VARIABLES
    \* SpecCodec: one decoder fed byte by byte
    parser,      \* the FrameProtocol object (state, escape_next, frame_buffer)
    fed,         \* history: the bytes given to process_byte so far
    emitted,     \* history: the frames process_byte returned so far
    last,        \* history: the value the last process_byte call returned
    \* SpecBuilder, SpecAnalyser, SpecServer: the PrintoutBuilder
    printout,    \* the PrintoutBuilder object (_image, _line)
    \* SpecBuilder: history of the calls made on the builder
    op,          \* the last call: its name
    prev,        \* the builder as it was before the last call
    ret,         \* the value the last get_image / take returned
    nops,        \* the number of calls made
    track,       \* what the claims follow across calls (see InitTrack)
    \* SpecAnalyser, SpecServer: the MechAnalyser and its serial port
    serial,      \* the inbound bytes the port has not delivered yet
    data,        \* MechAnalyser._data, the carry-over
    log,         \* history of the process calls (see InitLog)
    \* SpecServer: the MechAnalyserServer, its worker process and its callers
    requests,    \* the requests Queue
    printoutQ,   \* the printout Queue (the responses)
    wpc,         \* the worker: "process", "poll", or how it ended
    callers,     \* each caller thread: "idle", or "waiting" in printout.get()
    written,     \* the bytes the worker has written to the port
    slog,        \* history of the server (see InitServerLog)
    \* SpecDescriptor: the inputs and the outcome of the descriptor's functions
    bitmap,      \* the printout P: its rows
    extension,   \* the rows E that extend P
    fonts,       \* the fonts given to the descriptor
    space,       \* a list of VerticalSpaces, as the passes assign to it
    outcome,     \* the last call: its name, what it was given and how it ended
    \* SpecFont: the JSON descriptor a font is loaded from
    json_data

codecVars == <<parser, fed, emitted, last>>
builderVars == <<op, prev, ret, nops, track>>
analyserVars == <<serial, data, log>>
serverVars == <<requests, printoutQ, wpc, callers, written, slog>>
descriptorVars == <<bitmap, extension, fonts, space, outcome, json_data>>
vars == <<parser, fed, emitted, last, printout, op, prev, ret, nops, track,
          serial, data, log, requests, printoutQ, wpc, callers, written, slog,
          bitmap, extension, fonts, space, outcome, json_data>>

None == [none |-> TRUE]
Some(v) == [val |-> v]

(***************************************************************************)
(* protocol.py                                                             *)
(***************************************************************************)
FRAME_START == 2
FRAME_END == 3
ESCAPE == 27

Idle == "Idle"
Processing == "Processing"

\* FrameProtocol.__init__
NewFrameProtocol == [state |-> Idle, escape_next |-> FALSE, frame_buffer |-> <<>>]

\* FrameProtocol.process_byte, state Idle (lines 45-49): the decoder after the
\* call and the value returned.
IdleByte_EscapeArms(p, byte) ==
    IF byte = FRAME_START
    THEN [p |-> [p EXCEPT !.frame_buffer = <<>>, !.state = Processing], ret |-> None]
    ELSE IF byte = ESCAPE
    THEN [p |-> [p EXCEPT !.escape_next = TRUE], ret |-> None]
    ELSE [p |-> p, ret |-> None]

IdleByte(p, byte) ==
    IF byte = FRAME_START
    THEN [p |-> [p EXCEPT !.frame_buffer = <<>>, !.state = Processing], ret |-> None]
    ELSE [p |-> p, ret |-> None]

\* FrameProtocol.process_byte, state Processing (lines 51-70).
ProcessingByte_DropsByte(p, byte) ==
    IF p.escape_next
    THEN [p |-> [p EXCEPT !.frame_buffer = Append(@, byte), !.escape_next = FALSE],
          ret |-> None]
    ELSE IF byte = ESCAPE
    THEN [p |-> [p EXCEPT !.escape_next = TRUE], ret |-> None]
    ELSE IF byte = FRAME_START
    THEN [p |-> [p EXCEPT !.state = Idle], ret |-> None]
    ELSE IF byte = FRAME_END
    THEN [p |-> [p EXCEPT !.state = Idle], ret |-> Some(p.frame_buffer)]
    ELSE [p |-> p, ret |-> None]

ProcessingByte_Restarts(p, byte) ==
    IF p.escape_next
    THEN [p |-> [p EXCEPT !.frame_buffer = Append(@, byte), !.escape_next = FALSE],
          ret |-> None]
    ELSE IF byte = ESCAPE
    THEN [p |-> [p EXCEPT !.escape_next = TRUE], ret |-> None]
    ELSE IF byte = FRAME_START
    THEN [p |-> [p EXCEPT !.frame_buffer = <<>>], ret |-> None]
    ELSE IF byte = FRAME_END
    THEN [p |-> [p EXCEPT !.state = Idle], ret |-> Some(p.frame_buffer)]
    ELSE [p |-> [p EXCEPT !.frame_buffer = Append(@, byte)], ret |-> None]

ProcessingByte_EndFirst(p, byte) ==
    IF byte = FRAME_START
    THEN [p |-> [p EXCEPT !.state = Idle], ret |-> None]
    ELSE IF byte = FRAME_END
    THEN [p |-> [p EXCEPT !.state = Idle], ret |-> Some(p.frame_buffer)]
    ELSE IF p.escape_next
    THEN [p |-> [p EXCEPT !.frame_buffer = Append(@, byte), !.escape_next = FALSE],
          ret |-> None]
    ELSE IF byte = ESCAPE
    THEN [p |-> [p EXCEPT !.escape_next = TRUE], ret |-> None]
    ELSE [p |-> [p EXCEPT !.frame_buffer = Append(@, byte)], ret |-> None]

ProcessingByte_EscapedEnd(p, byte) ==
    IF p.escape_next /\ byte # FRAME_END
    THEN [p |-> [p EXCEPT !.frame_buffer = Append(@, byte), !.escape_next = FALSE],
          ret |-> None]
    ELSE IF byte = ESCAPE
    THEN [p |-> [p EXCEPT !.escape_next = TRUE], ret |-> None]
    ELSE IF byte = FRAME_START
    THEN [p |-> [p EXCEPT !.state = Idle], ret |-> None]
    ELSE IF byte = FRAME_END
    THEN [p |-> [p EXCEPT !.state = Idle, !.escape_next = FALSE],
          ret |-> Some(p.frame_buffer)]
    ELSE [p |-> [p EXCEPT !.frame_buffer = Append(@, byte)], ret |-> None]

ProcessingByte(p, byte) ==
    IF p.escape_next
    THEN [p |-> [p EXCEPT !.frame_buffer = Append(@, byte), !.escape_next = FALSE],
          ret |-> None]
    ELSE IF byte = ESCAPE
    THEN [p |-> [p EXCEPT !.escape_next = TRUE], ret |-> None]
    ELSE IF byte = FRAME_START
    THEN [p |-> [p EXCEPT !.state = Idle], ret |-> None]
    ELSE IF byte = FRAME_END
    THEN [p |-> [p EXCEPT !.state = Idle], ret |-> Some(p.frame_buffer)]
    ELSE [p |-> [p EXCEPT !.frame_buffer = Append(@, byte)], ret |-> None]

\* FrameProtocol.process_byte
ProcessByte(p, byte) ==
    IF p.state = Idle THEN IdleByte(p, byte) ELSE ProcessingByte(p, byte)

(***************************************************************************)
(* analyser.py: PrintoutBuilder.  A row is a sequence of HEAD_WIDTH        *)
(* elements 0/1; _image is a sequence of rows; Python's 0-based            *)
(* _image[_line] is image[line + 1] here.  The source sets HEAD_WIDTH to   *)
(* 384 (48 payload bytes); the model keeps HEAD_WIDTH = 8 * HeadBytes and  *)
(* scales HeadBytes down, the code never depends on the value otherwise.   *)
(***************************************************************************)
HeadBytes == 1
HEAD_WIDTH == 8 * HeadBytes

\* np.zeros(HEAD_WIDTH).astype(uint8)
ZeroRow == [i \in 1..HEAD_WIDTH |-> 0]

\* PrintoutBuilder.__init__
NewPrintoutBuilder == [image |-> <<ZeroRow>>, line |-> 0]

LineAdvance_NoMove(b) == [b EXCEPT !.image = Append(@, ZeroRow)]

\* PrintoutBuilder.line_advance
LineAdvance(b) ==
    LET l == b.line + 1
    IN [image |-> IF l >= Len(b.image) THEN Append(b.image, ZeroRow) ELSE b.image,
        line |-> l]

LineReverse_NoPrepend(b) ==
    IF b.line = 0 THEN b ELSE [b EXCEPT !.line = @ - 1]

\* PrintoutBuilder.line_reverse
LineReverse(b) ==
    IF b.line = 0
    THEN [b EXCEPT !.image = <<ZeroRow>> \o @]
    ELSE [b EXCEPT !.line = @ - 1]

\* np.bitwise_or of a row and a mask under numpy's broadcasting: the shapes
\* must be equal, or the mask must have one element; otherwise ValueError.
BroadcastRaises(row, mask) == Len(mask) # Len(row) /\ Len(mask) # 1

Or(x, y) == IF x = 1 \/ y = 1 THEN 1 ELSE 0

BitwiseOr(row, mask) ==
    [i \in 1..Len(row) |-> Or(row[i], IF Len(mask) = 1 THEN mask[1] ELSE mask[i])]

\* PrintoutBuilder.burn_line: whether it raises, and the builder after it
\* when it does not (the row is assigned only after bitwise_or returned).
BurnLineRaises(b, mask) == BroadcastRaises(b.image[b.line + 1], mask)

BurnLine_Overwrites(b, mask) ==
    [b EXCEPT !.image[b.line + 1] = BitwiseOr(ZeroRow, mask)]

BurnLine(b, mask) ==
    [b EXCEPT !.image[b.line + 1] = BitwiseOr(@, mask)]

\* np.multiply(image, 255, dtype=uint8) on rows of 0/1
Multiply255_Once(rows) == rows

Multiply255(rows) == [r \in 1..Len(rows) |-> [i \in 1..Len(rows[r]) |-> rows[r][i] * 255]]

GetImage_IncludesLast(b) ==
    IF Len(b.image) <= 1 THEN None ELSE Some(Multiply255(b.image))

\* PrintoutBuilder.get_image
GetImage(b) ==
    IF Len(b.image) <= 1
    THEN None
    ELSE Some(Multiply255(SubSeq(b.image, 1, Len(b.image) - 1)))

Clear_Empties(b) == [image |-> <<ZeroRow>>, line |-> 0]

Clear_KeepsLine(b) == [image |-> <<b.image[Len(b.image)]>>, line |-> b.line]

Clear_KeepsFirst(b) == [image |-> <<b.image[1]>>, line |-> 0]

\* PrintoutBuilder.clear
Clear(b) == [image |-> <<b.image[Len(b.image)]>>, line |-> 0]

\* np.unpackbits(line, bitorder="big"): each byte becomes 8 bits, the most
\* significant first.
Bits8(x) == [i \in 1..8 |-> (x \div (2 ^ (8 - i))) % 2]

RECURSIVE UnpackBits(_)
UnpackBits(bytes) ==
    IF bytes = <<>> THEN <<>> ELSE Bits8(Head(bytes)) \o UnpackBits(Tail(bytes))

(***************************************************************************)
(* analyser.py: MechAnalyser.process                                       *)
(***************************************************************************)
Repsonse_Acknowledge == 6
Repsonse_MotorAdvance == 70
Repsonse_MotorReverse == 66
Repsonse_BurnLine == 85

\* The decode loop (lines 82-91): a parser p, the carry-over d being rebuilt,
\* the frames found so far, and the bytes still to go.
RECURSIVE DecodeLoop(_, _, _, _)
DecodeLoop(p, d, frames, bytes) ==
    IF bytes = <<>>
    THEN [data |-> d, frames |-> frames]
    ELSE LET r == ProcessByte(p, Head(bytes))
         IN IF r.ret # None
            THEN DecodeLoop(r.p, <<>>, Append(frames, r.ret.val), Tail(bytes))
            ELSE DecodeLoop(r.p, Append(d, Head(bytes)), frames, Tail(bytes))

\* bytes.startswith of a one-byte prefix
StartsWith(frame, code) == frame # <<>> /\ frame[1] = code

Reverse_Keeps(s) == s

RECURSIVE Reverse(_)
Reverse(s) == IF s = <<>> THEN <<>> ELSE Append(Reverse(Tail(s)), Head(s))

\* The body of the dispatch loop (lines 95-108) for one frame: three
\* independent ifs; burn_line may raise.
Dispatch(b, frame) ==
    LET b1 == IF StartsWith(frame, Repsonse_MotorAdvance) THEN LineAdvance(b) ELSE b
        b2 == IF StartsWith(frame, Repsonse_MotorReverse) THEN LineReverse(b1) ELSE b1
    IN IF StartsWith(frame, Repsonse_BurnLine)
       THEN LET line == UnpackBits(Reverse(Tail(frame)))
            IN IF BurnLineRaises(b2, line)
               THEN [printout |-> b2, raised |-> TRUE]
               ELSE [printout |-> BurnLine(b2, line), raised |-> FALSE]
       ELSE [printout |-> b2, raised |-> FALSE]

\* The dispatch loop (lines 94-108): the frames are applied in order; an
\* exception ends the loop, and the call, with the frames after it unapplied.
\* reached counts the frames the loop got to, the raising one included.
RECURSIVE DispatchLoop(_, _, _)
DispatchLoop(b, frames, reached) ==
    IF frames = <<>>
    THEN [printout |-> b, raised |-> FALSE, reached |-> reached]
    ELSE LET r == Dispatch(b, Head(frames))
         IN IF r.raised
            THEN [printout |-> r.printout, raised |-> TRUE, reached |-> reached + 1]
            ELSE DispatchLoop(r.printout, Tail(frames), reached + 1)

\* MechAnalyser.process when read_all returned new_data: the carry-over and
\* the builder after the call, the frames decoded, how many of them the
\* dispatch loop reached, and whether the call raised.
Process(d, b, new_data) ==
    IF new_data = <<>>
    THEN [data |-> d, printout |-> b, frames |-> <<>>, reached |-> 0, raised |-> FALSE]
    ELSE LET dec == DecodeLoop(NewFrameProtocol, <<>>, <<>>, d \o new_data)
             dis == DispatchLoop(b, dec.frames, 0)
         IN [data |-> dec.data, printout |-> dis.printout, frames |-> dec.frames,
             reached |-> dis.reached, raised |-> dis.raised]

(***************************************************************************)
(* SpecCodec: one FrameProtocol object fed one byte at a time.             *)
(***************************************************************************)
MaxFed == 7
CodecBytes == {FRAME_START, FRAME_END, ESCAPE, 70, 85}

\* What the claims follow across the calls made on a builder.
InitTrack ==
    [motionOnly |-> TRUE,   \* only line_advance / line_reverse were called so far
     maxLine |-> 0,         \* the largest and smallest value _line has had
     minLine |-> 0,
     pos |-> 0,             \* line_advance calls minus line_reverse calls
     maxPos |-> 0,
     minPos |-> 0,
     snap |-> None,         \* what the last get_image returned
     shift |-> 0,           \* rows prepended since then
     floor |-> 0,           \* the index (0-based) of the last row at that time
     below |-> FALSE,       \* the cursor has been above that row, then or since
     noReverse |-> TRUE,    \* line_reverse was not called so far
     taken |-> <<>>,        \* the rows the take_printout calls returned, in order
     whole |-> NewPrintoutBuilder]  \* a builder given the same events and no take

\* What the claims follow across the process calls of a MechAnalyser.
InitLog ==
    [wire |-> <<>>,        \* the bytes read_all has returned so far, in order
     decoded |-> <<>>,     \* the frames the decode loops have produced so far
     applied |-> <<>>,     \* the frames the dispatch loops have reached so far
     raised |-> FALSE]     \* the last process call raised

Callers == {1, 2}

\* What the claims follow across the life of a server.
InitServerLog ==
    [calls |-> 0,          \* the calls made on the server so far
     handled |-> <<>>,     \* the requests the worker has taken off the queue
     got |-> <<>>,         \* the responses the callers have received: <<caller, value>>
     received |-> 0,       \* the items the callers have taken off the printout queue
     enqueued |-> <<>>,    \* the requests put on the requests queue so far, in order
     ran |-> FALSE,        \* process has run since the worker last took a request
     arrived |-> 0,        \* the bytes of serial the port has received and read_all has not yet returned
     stale |-> <<>>,       \* for each request on the queue: bytes the port had received when
                           \* it was put have not been returned by read_all since
     missed |-> <<>>,      \* for each request handled: whether that was so when it was handled
     owners |-> <<>>,      \* for each PRINTOUT_GET / PRINTOUT_TAKE on the requests queue: its caller
     answers |-> <<>>,     \* for each response on the printout queue: the caller whose request it answers
     astray |-> FALSE]     \* a caller has received a response that answers another caller's request

\* The state after construction of everything but the port's inbound stream.
Fresh ==
    /\ data = <<>>
    /\ log = InitLog
    /\ requests = <<>>
    /\ printoutQ = <<>>
    /\ wpc = "process"
    /\ callers = [c \in Callers |-> "idle"]
    /\ written = <<>>
    /\ slog = InitServerLog
    /\ parser = NewFrameProtocol
    /\ fed = <<>>
    /\ emitted = <<>>
    /\ last = None
    /\ printout = NewPrintoutBuilder
    /\ op = "init"
    /\ prev = NewPrintoutBuilder
    /\ ret = None
    /\ nops = 0
    /\ track = InitTrack

\* No descriptor is at work in the specifications of the analyser.
NoDescriptor ==
    /\ bitmap = <<>>
    /\ extension = <<>>
    /\ fonts = <<>>
    /\ space = <<>>
    /\ outcome = [op |-> "none", raised |-> "none", value |-> <<>>, given |-> <<>>]
    /\ json_data = <<>>

Init ==
    /\ serial = <<>>
    /\ Fresh
    /\ NoDescriptor

Feed(byte) ==
    /\ Len(fed) < MaxFed
    /\ LET r == ProcessByte(parser, byte)
       IN /\ parser' = r.p
          /\ last' = r.ret
          /\ emitted' = IF r.ret = None THEN emitted ELSE Append(emitted, r.ret.val)
    /\ fed' = Append(fed, byte)
    /\ UNCHANGED <<printout, op, prev, ret, nops, track>>
    /\ UNCHANGED analyserVars
    /\ UNCHANGED serverVars
    /\ UNCHANGED descriptorVars

NextCodec == \E byte \in CodecBytes : Feed(byte)

SpecCodec == Init /\ [][NextCodec]_vars

(***************************************************************************)
(* SpecBuilder: one PrintoutBuilder, its methods called in any order (and  *)
(* MechAnalyser.take_printout, which is get_image followed by clear).      *)
(***************************************************************************)
MaxOps == 6
MaskBytes == {1, 128}

\* The masks burn_line is called with: the unpacked bits of HeadBytes payload
\* bytes, and of an empty payload (the wrong length).
BuilderMasks ==
    {UnpackBits(payload) : payload \in [1..HeadBytes -> MaskBytes]} \cup {UnpackBits(<<>>)}

Max(a, b) == IF a >= b THEN a ELSE b
Min(a, b) == IF a <= b THEN a ELSE b

\* The motion part of track after call o took the builder to b.
TrackMotion(o, b) ==
    IF track.motionOnly /\ o \in {"line_advance", "line_reverse"}
    THEN LET p == IF o = "line_advance" THEN track.pos + 1 ELSE track.pos - 1
         IN [motionOnly |-> TRUE,
             maxLine |-> Max(track.maxLine, b.line),
             minLine |-> Min(track.minLine, b.line),
             pos |-> p,
             maxPos |-> Max(track.maxPos, p),
             minPos |-> Min(track.minPos, p)]
    ELSE [motionOnly |-> FALSE, maxLine |-> 0, minLine |-> 0,
          pos |-> 0, maxPos |-> 0, minPos |-> 0]

\* The snapshot part of track after call o, which returned r, took the
\* builder from a to b.
TrackSnap(o, a, b, r) ==
    IF o = "get_image"
    THEN [snap |-> r, shift |-> 0, floor |-> Len(a.image) - 1,
          below |-> a.line < Len(a.image) - 1]
    ELSE IF o = "take_printout" \/ track.snap = None
    THEN [snap |-> None, shift |-> 0, floor |-> 0, below |-> FALSE]
    ELSE LET s == IF Len(b.image) > Len(a.image) /\ o = "line_reverse"
                  THEN track.shift + 1 ELSE track.shift
         IN [snap |-> track.snap, shift |-> s, floor |-> track.floor,
             below |-> track.below \/ b.line - s < track.floor]

\* What the same events make of a builder that is never cleared, and the rows
\* taken so far, after call o with mask m returned r.
TrackTakes(o, r, m) ==
    [noReverse |-> track.noReverse /\ o # "line_reverse",
     taken |-> IF o = "take_printout" /\ r # None THEN track.taken \o r.val
               ELSE track.taken,
     whole |-> IF o = "line_advance" THEN LineAdvance(track.whole)
               ELSE IF o = "line_reverse" THEN LineReverse(track.whole)
               ELSE IF o \in {"burn_line", "burn_line raised"}
               THEN IF BurnLineRaises(track.whole, m) THEN track.whole
                    ELSE BurnLine(track.whole, m)
               ELSE track.whole]

CallWith(o, b, r, mask) ==
    /\ nops < MaxOps
    /\ nops' = nops + 1
    /\ op' = o
    /\ prev' = printout
    /\ printout' = b
    /\ ret' = r
    /\ track' = LET m == TrackMotion(o, b)
                    s == TrackSnap(o, printout, b, r)
                    t == TrackTakes(o, r, mask)
                IN [motionOnly |-> m.motionOnly, maxLine |-> m.maxLine,
                    minLine |-> m.minLine, pos |-> m.pos, maxPos |-> m.maxPos,
                    minPos |-> m.minPos, snap |-> s.snap, shift |-> s.shift,
                    floor |-> s.floor, below |-> s.below,
                    noReverse |-> t.noReverse, taken |-> t.taken, whole |-> t.whole]
    /\ UNCHANGED codecVars
    /\ UNCHANGED descriptorVars
    /\ UNCHANGED analyserVars
    /\ UNCHANGED serverVars

Call(o, b, r) == CallWith(o, b, r, <<>>)

DoLineAdvance == Call("line_advance", LineAdvance(printout), None)

DoLineReverse == Call("line_reverse", LineReverse(printout), None)

DoBurnLine ==
    \E mask \in BuilderMasks :
        IF BurnLineRaises(printout, mask)
        THEN CallWith("burn_line raised", printout, None, mask)
        ELSE CallWith("burn_line", BurnLine(printout, mask), None, mask)

DoGetImage == Call("get_image", printout, GetImage(printout))

\* MechAnalyser.take_printout
DoTakePrintout == Call("take_printout", Clear(printout), GetImage(printout))

NextBuilder ==
    \/ DoLineAdvance
    \/ DoLineReverse
    \/ DoBurnLine
    \/ DoGetImage
    \/ DoTakePrintout

SpecBuilder == Init /\ [][NextBuilder]_vars

(***************************************************************************)
(* SpecAnalyser: one MechAnalyser.  The port holds an inbound stream; each *)
(* process call gets from read_all any number of the bytes not yet         *)
(* delivered (none included).  A caller that survives an exception of      *)
(* process (the Tk callback of app.py does) calls it again.                *)
(***************************************************************************)
MaxStream == 6
AnalyserBytes == {FRAME_START, FRAME_END, ESCAPE,
                  Repsonse_MotorAdvance, Repsonse_MotorReverse, Repsonse_BurnLine}

\* The frames the mech sends: a burn line whose payload bytes are all b, an advance.
BurnFrame(b) ==
    <<FRAME_START, Repsonse_BurnLine>> \o [i \in 1..HeadBytes |-> b] \o <<FRAME_END>>
AdvanceFrame == <<FRAME_START, Repsonse_MotorAdvance, FRAME_END>>

RECURSIVE Repeat(_, _)
Repeat(s, k) == IF k = 0 THEN <<>> ELSE s \o Repeat(s, k - 1)

\* Printing runs: a full-width burn line and an advance, up to MaxReps times.
MaxReps == 3
ScenarioStreams ==
    {Repeat(BurnFrame(b) \o AdvanceFrame, k) : k \in 1..MaxReps, b \in {255, 129}}

InitAnalyser ==
    /\ serial \in [1..MaxStream -> AnalyserBytes] \cup ScenarioStreams
    /\ Fresh
    /\ NoDescriptor

DoProcess(n) ==
    LET new_data == SubSeq(serial, 1, n)
        r == Process(data, printout, new_data)
    IN /\ serial' = SubSeq(serial, n + 1, Len(serial))
       /\ data' = r.data
       /\ printout' = r.printout
       /\ log' = [wire |-> log.wire \o new_data,
                  decoded |-> log.decoded \o r.frames,
                  applied |-> log.applied \o SubSeq(r.frames, 1, r.reached),
                  raised |-> r.raised]
       /\ UNCHANGED codecVars
       /\ UNCHANGED descriptorVars
       /\ UNCHANGED builderVars
       /\ UNCHANGED serverVars

NextAnalyser == \E n \in 0..Len(serial) : DoProcess(n)

SpecAnalyser == InitAnalyser /\ [][NextAnalyser]_vars

(***************************************************************************)
(* SpecServer: one MechAnalyserServer.  The worker process runs _run: it   *)
(* alternates a process call ("process") with a look at the requests queue *)
(* ("poll") until it ends: "exited" after Request.EXIT, "raised" when      *)
(* process raises (nothing in _run catches), "killed" after kill().  The   *)
(* caller threads make the calls of the class; get_printout, take_printout *)
(* and clear_printout put a request and then block in printout.get().      *)
(***************************************************************************)
MaxCalls == 3

Command_Poll == 80
Command_SetPaperIn == 65
Command_SetPaperOut == 97
Command_SetPlatenIn == 76
Command_SetPlatenOut == 108
Command_RecordingStart == 82
Command_RecordingStop == 114

\* class Command
Commands ==
    {Command_Poll, Command_SetPaperIn, Command_SetPaperOut, Command_SetPlatenIn,
     Command_SetPlatenOut, Command_RecordingStart, Command_RecordingStop}

CommandToBytes_Escaped(cmd) == <<FRAME_START, ESCAPE, cmd, FRAME_END>>

\* Command.to_bytes
CommandToBytes(cmd) == <<FRAME_START, cmd, FRAME_END>>

SetRequests == {"SET_PAPER_IN", "SET_PAPER_OUT", "SET_PLATEN_IN", "SET_PLATEN_OUT",
                "RECORDING_START", "RECORDING_STOP"}

\* The command byte the analyser sends for a request of SetRequests.
CommandOf(req) ==
    CASE req = "SET_PAPER_IN" -> Command_SetPaperIn
      [] req = "SET_PAPER_OUT" -> Command_SetPaperOut
      [] req = "SET_PLATEN_IN" -> Command_SetPlatenIn
      [] req = "SET_PLATEN_OUT" -> Command_SetPlatenOut
      [] req = "RECORDING_START" -> Command_RecordingStart
      [] req = "RECORDING_STOP" -> Command_RecordingStop

Alive == wpc \in {"process", "poll"}

\* The inbound streams: a full-width burn line and an advance, and the same
\* with the burn line's payload missing.
ServerStreams ==
    {<<FRAME_START, Repsonse_BurnLine>> \o [i \in 1..HeadBytes |-> 128] \o <<FRAME_END>>
        \o <<FRAME_START, Repsonse_MotorAdvance, FRAME_END>>,
     <<FRAME_START, Repsonse_BurnLine, FRAME_END>>
        \o <<FRAME_START, Repsonse_MotorAdvance, FRAME_END>>}

InitServer ==
    /\ serial \in ServerStreams
    /\ Fresh
    /\ NoDescriptor

\* The sizes of the bursts in which the inbound stream reaches the port.
ArriveSizes == {3, 4}

\* The port receives k more bytes of the inbound stream.
Arrive(k) ==
    /\ Alive
    /\ slog.arrived + k <= Len(serial)
    /\ slog' = [slog EXCEPT !.arrived = @ + k]
    /\ UNCHANGED <<requests, printoutQ, wpc, callers, written>>
    /\ UNCHANGED <<printout, serial, data, log>>
    /\ UNCHANGED codecVars
    /\ UNCHANGED descriptorVars
    /\ UNCHANGED builderVars

\* _run: analyser.process(); read_all returns the n bytes the port has received
WorkerProcess(n) ==
    /\ wpc = "process"
    /\ LET new_data == SubSeq(serial, 1, n)
           r == Process(data, printout, new_data)
       IN /\ serial' = SubSeq(serial, n + 1, Len(serial))
          /\ data' = r.data
          /\ printout' = r.printout
          /\ log' = [wire |-> log.wire \o new_data,
                     decoded |-> log.decoded \o r.frames,
                     applied |-> log.applied \o SubSeq(r.frames, 1, r.reached),
                     raised |-> r.raised]
          /\ wpc' = IF r.raised THEN "raised" ELSE "poll"
    /\ slog' = [slog EXCEPT !.ran = TRUE, !.arrived = @ - n,
                             !.stale = [i \in 1..Len(slog.stale) |->
                                            slog.stale[i] /\ n < slog.arrived]]
    /\ UNCHANGED <<requests, printoutQ, callers, written>>
    /\ UNCHANGED codecVars
    /\ UNCHANGED descriptorVars
    /\ UNCHANGED builderVars

\* _run: if requests.empty(): continue
PollEmpty ==
    /\ wpc = "poll"
    /\ requests = <<>>
    /\ wpc' = "process"
    /\ UNCHANGED <<requests, printoutQ, callers, written, slog>>
    /\ UNCHANGED <<printout, serial, data, log>>
    /\ UNCHANGED codecVars
    /\ UNCHANGED descriptorVars
    /\ UNCHANGED builderVars

PrintoutRequests == {"PRINTOUT_GET", "PRINTOUT_TAKE"}

Taken_Newest(req) ==
    /\ wpc = "poll"
    /\ requests # <<>>
    /\ requests[Len(requests)] = req
    /\ requests' = SubSeq(requests, 1, Len(requests) - 1)
    /\ slog' = [slog EXCEPT !.handled = Append(@, req), !.ran = FALSE,
                             !.stale = Tail(@),
                             !.missed = Append(@, Head(slog.stale)),
                             !.owners = IF req \in PrintoutRequests THEN Tail(@) ELSE @,
                             !.answers = IF req \in PrintoutRequests
                                         THEN Append(@, Head(slog.owners)) ELSE @]
    /\ UNCHANGED <<callers, serial, data, log>>
    /\ UNCHANGED codecVars
    /\ UNCHANGED descriptorVars
    /\ UNCHANGED builderVars

\* _run: requests.get() returned req
Taken(req) ==
    /\ wpc = "poll"
    /\ requests # <<>>
    /\ Head(requests) = req
    /\ requests' = Tail(requests)
    /\ slog' = [slog EXCEPT !.handled = Append(@, req), !.ran = FALSE,
                             !.stale = Tail(@),
                             !.missed = Append(@, Head(slog.stale)),
                             !.owners = IF req \in PrintoutRequests THEN Tail(@) ELSE @,
                             !.answers = IF req \in PrintoutRequests
                                         THEN Append(@, Head(slog.owners)) ELSE @]
    /\ UNCHANGED <<callers, serial, data, log>>
    /\ UNCHANGED codecVars
    /\ UNCHANGED descriptorVars
    /\ UNCHANGED builderVars

\* _run: case Request.EXIT: break
HandleExit ==
    /\ Taken("EXIT")
    /\ wpc' = "exited"
    /\ UNCHANGED <<printout, printoutQ, written>>

\* _run: the six cases that send a command to the mech
HandleCommand ==
    \E req \in SetRequests :
        /\ Taken(req)
        /\ written' = written \o CommandToBytes(CommandOf(req))
        /\ wpc' = "process"
        /\ UNCHANGED <<printout, printoutQ>>

HandleGet_NoPublish ==
    /\ Taken("PRINTOUT_GET")
    /\ wpc' = "process"
    /\ UNCHANGED <<printout, printoutQ, written>>

\* _run: case Request.PRINTOUT_GET: printout.put(analyser.get_printout())
HandleGet ==
    /\ Taken("PRINTOUT_GET")
    /\ printoutQ' = Append(printoutQ, GetImage(printout))
    /\ wpc' = "process"
    /\ UNCHANGED <<printout, written>>

\* _run: case Request.PRINTOUT_TAKE: printout.put(analyser.take_printout())
HandleTake ==
    /\ Taken("PRINTOUT_TAKE")
    /\ printoutQ' = Append(printoutQ, GetImage(printout))
    /\ printout' = Clear(printout)
    /\ wpc' = "process"
    /\ UNCHANGED written

\* _run: the rest of a loop iteration, after analyser.process()
WorkerPoll ==
    \/ PollEmpty
    \/ HandleExit
    \/ HandleCommand
    \/ HandleGet
    \/ HandleTake

Worker ==
    \/ WorkerProcess(slog.arrived)
    \/ WorkerPoll

\* A call of the class by caller c that puts req and leaves c in state st.
Put(c, req, st) ==
    /\ callers[c] = "idle"
    /\ slog.calls < MaxCalls
    /\ requests' = Append(requests, req)
    /\ callers' = [callers EXCEPT ![c] = st]
    /\ slog' = [slog EXCEPT !.calls = @ + 1, !.enqueued = Append(@, req),
                             !.stale = Append(@, slog.arrived > 0),
                             !.owners = IF req \in PrintoutRequests THEN Append(@, c) ELSE @]
    /\ UNCHANGED <<printoutQ, wpc, written>>
    /\ UNCHANGED <<printout, serial, data, log>>
    /\ UNCHANGED codecVars
    /\ UNCHANGED descriptorVars
    /\ UNCHANGED builderVars

\* MechAnalyserServer.stop
CallStop(c) == Put(c, "EXIT", "idle")

\* The set calls the callers make: set_paper_in and stop_capture.
SetCalls == {"SET_PAPER_IN", "RECORDING_STOP"}

\* MechAnalyserServer.set_paper_in .. stop_capture
CallSet(c) == \E req \in SetCalls : Put(c, req, "idle")

\* MechAnalyserServer.get_printout, up to the blocking printout.get()
CallGet(c) == Put(c, "PRINTOUT_GET", "waiting")

\* MechAnalyserServer.take_printout, up to the blocking printout.get()
CallTake(c) == Put(c, "PRINTOUT_TAKE", "waiting")

\* MechAnalyserServer.clear_printout, up to the blocking printout.get()
CallClear(c) == Put(c, "PRINTOUT_TAKE", "clearing")

\* MechAnalyserServer.kill
CallKill(c) ==
    /\ callers[c] = "idle"
    /\ slog.calls < MaxCalls
    /\ wpc' = IF Alive THEN "killed" ELSE wpc
    /\ slog' = [slog EXCEPT !.calls = @ + 1]
    /\ UNCHANGED <<requests, printoutQ, callers, written>>
    /\ UNCHANGED <<printout, serial, data, log>>
    /\ UNCHANGED codecVars
    /\ UNCHANGED descriptorVars
    /\ UNCHANGED builderVars

\* printout.get() returns in caller c: the call returns (clear_printout drops the value)
Receive(c) ==
    /\ callers[c] \in {"waiting", "clearing"}
    /\ printoutQ # <<>>
    /\ printoutQ' = Tail(printoutQ)
    /\ callers' = [callers EXCEPT ![c] = "idle"]
    /\ slog' = [slog EXCEPT !.got =
                   IF callers[c] = "waiting" THEN Append(@, <<c, Head(printoutQ)>>) ELSE @,
                             !.received = @ + 1,
                             !.answers = Tail(@),
                             !.astray = @ \/ Head(slog.answers) # c]
    /\ UNCHANGED <<requests, wpc, written>>
    /\ UNCHANGED <<printout, serial, data, log>>
    /\ UNCHANGED codecVars
    /\ UNCHANGED descriptorVars
    /\ UNCHANGED builderVars

NextServer ==
    \/ Worker
    \/ \E k \in ArriveSizes : Arrive(k)
    \/ \E c \in Callers :
        \/ CallStop(c)
        \/ CallSet(c)
        \/ CallGet(c)
        \/ CallTake(c)
        \/ CallClear(c)
        \/ CallKill(c)
        \/ Receive(c)

SpecServer == InitServer /\ [][NextServer]_vars

\* The worker process is scheduled fairly, and so is every caller blocked in
\* printout.get() while the queue holds a response.  WorkerProcess is enabled
\* exactly when wpc = "process" and every step of it changes wpc, so weak
\* fairness of it is: the worker is not at "process" for ever.
FairServer ==
    /\ SpecServer
    /\ []<>(wpc # "process")
    /\ WF_vars(WorkerPoll)
    /\ \A c \in Callers : WF_vars(Receive(c))

(***************************************************************************)
(* geometry.py, parse/space.py, parse/descriptor.py: the segmenter and the *)
(* PrintoutDescriptor.  A bitmap is a sequence of rows, a row a sequence   *)
(* of DescWidth elements 0/1.  Span(beg, end) keeps Python's 0-based       *)
(* half-open values: row beg of a bitmap is image[beg + 1] here, and       *)
(* Python's list index x is x + 1 here.  A call either returns a value or  *)
(* raises: Returned(v), or Raised(e, v) with e the exception and v the     *)
(* list the call was working on, as its in-place assignments left it.      *)
(* An optional argument is <<>> (None) or <<v>>.                           *)
(***************************************************************************)
Returned(v) == [raised |-> "none", value |-> v]
Raised(e, v) == [raised |-> e, value |-> v]

\* geometry.py: Span, Point, BoundingBox
Span(b, e) == [beg |-> b, end |-> e]
Point(x, y) == [x |-> x, y |-> y]
BoundingBox(p1, p2) == [p1 |-> p1, p2 |-> p2]
horizontal_span(bbox) == Span(bbox.p1.x, bbox.p2.x)
vertical_span(bbox) == Span(bbox.p1.y, bbox.p2.y)

\* The builtin len() applied to a Span.  The class defines a property named
\* len and no __len__ method, so the builtin raises TypeError.
LenOfSpan(s) == Raised("TypeError", s)

\* space.py: the HorizontalSpace variants and VerticalSpace
WhiteSpace(s) == [type |-> "WhiteSpace", span |-> s, matches |-> <<>>]
UnknownSpace(s) == [type |-> "UnknownSpace", span |-> s, matches |-> <<>>]
GlyphSpace(s, m) == [type |-> "GlyphSpace", span |-> s, matches |-> m]
VerticalSpace(s, c) == [span |-> s, contents |-> c]

\* HorizontalSpace.__len__, VerticalSpace.__len__: return len(self.span)
HorizontalLen(h) == LenOfSpan(h.span)
VerticalLen(v) == LenOfSpan(v.span)

\* HorizontalSpace.has_volume
HorizontalHasVolume(h) == h.span.end > h.span.beg

\* VerticalSpace.has_volume: return len(self.span) > 0
VerticalHasVolume(v) ==
    LET n == VerticalLen(v)
    IN IF n.raised # "none" THEN n ELSE Returned(n.value > 0)

MinOf(S) == CHOOSE a \in S : \A b \in S : a <= b

RECURSIVE SortedSeq(_)
SortedSeq(S) == IF S = {} THEN <<>> ELSE <<MinOf(S)>> \o SortedSeq(S \ {MinOf(S)})

Offsets_EveryIndex(flags) == SortedSeq({0} \cup 1..(Len(flags) - 1))

\* np.where(flags[:-1] != flags[1:])[0] + 1 with 0 inserted in front, and the
\* spans between consecutive offsets, the last one ending at total.
Offsets(flags) ==
    SortedSeq({0} \cup {k \in 1..(Len(flags) - 1) : flags[k] # flags[k + 1]})

RunSpans_OpenEnd(flags, total) ==
    LET offsets == Offsets(flags)
    IN [i \in 1..Len(offsets) |->
            Span(offsets[i], IF i < Len(offsets) THEN offsets[i + 1] ELSE offsets[i])]

RunSpans(flags, total) ==
    LET offsets == Offsets(flags)
    IN [i \in 1..Len(offsets) |->
            Span(offsets[i], IF i < Len(offsets) THEN offsets[i + 1] ELSE total)]

\* space.py: parse_horizontal.  np.any(axis=0) of a band without rows is
\* all False.
DescWidth == 3
parse_horizontal(band) ==
    LET burned_cols == [c \in 1..DescWidth |-> \E r \in 1..Len(band) : band[r][c] # 0]
        spans == RunSpans(burned_cols, DescWidth)
    IN [i \in 1..Len(spans) |->
            IF burned_cols[spans[i].beg + 1] THEN UnknownSpace(spans[i])
            ELSE WhiteSpace(spans[i])]

\* printout[beg:end]: a Python slice, clamped to the rows there are
Slice(image, beg, end) == SubSeq(image, beg + 1, Min(end, Len(image)))

from_printout_NoOffset(image, roi) ==
    LET print == IF roi = <<>> THEN image ELSE Slice(image, roi[1].beg, roi[1].end)
        burned_rows == [r \in 1..Len(print) |-> \E c \in 1..DescWidth : print[r][c] # 0]
        spans == RunSpans(burned_rows, Len(print))
    IN [i \in 1..Len(spans) |->
            VerticalSpace(Span(spans[i].beg, spans[i].end),
                          parse_horizontal(Slice(print, spans[i].beg, spans[i].end)))]

\* space.py: from_printout
from_printout(image, roi) ==
    LET print == IF roi = <<>> THEN image ELSE Slice(image, roi[1].beg, roi[1].end)
        roi_offset == IF roi = <<>> THEN 0 ELSE roi[1].beg
        burned_rows == [r \in 1..Len(print) |-> \E c \in 1..DescWidth : print[r][c] # 0]
        spans == RunSpans(burned_rows, Len(print))
    IN [i \in 1..Len(spans) |->
            VerticalSpace(Span(spans[i].beg + roi_offset, spans[i].end + roi_offset),
                          parse_horizontal(Slice(print, spans[i].beg, spans[i].end)))]

\* descriptor.py: parse_unknown.  With no UnknownSpace or no font nothing is
\* replaced.  Otherwise the first thing evaluated for the first UnknownSpace
\* and the first font is len(vert), the left operand of l.72, which raises
\* before the matcher of l.75 is called.
parse_unknown(image, spaces, fontlist) ==
    LET unknown == {y \in 1..Len(spaces) :
                        \E x \in 1..Len(spaces[y].contents) :
                            spaces[y].contents[x].type = "UnknownSpace"}
    IN IF unknown = {} \/ fontlist = <<>> THEN Returned(spaces)
       ELSE Raised(VerticalLen(spaces[MinOf(unknown)]).raised, spaces)

\* descriptor.py l.94: a strong match has a score below 0.001.  Scores are
\* kept in thousandths.
StrongLimit == 1

\* constrain_whitespace l.92-94: the indices of the strong GlyphSpaces
StrongOf(contents) ==
    SortedSeq({x \in 1..Len(contents) :
                  /\ contents[x].type = "GlyphSpace"
                  /\ contents[x].matches[1].match < StrongLimit})

\* constrain_whitespace l.97-108: the body of the inner loop for index x
ConstrainHori(contents, x) ==
    LET match_hori_span == horizontal_span(contents[x].matches[1].pos)
        c1 == [contents EXCEPT ![x].span = match_hori_span]
        c2 == IF x > 1 THEN [c1 EXCEPT ![x - 1].span.end = match_hori_span.beg] ELSE c1
    IN IF x < Len(contents) THEN [c2 EXCEPT ![x + 1].span.beg = match_hori_span.end]
       ELSE c2

RECURSIVE ConstrainHoris(_, _)
ConstrainHoris(contents, xs) ==
    IF xs = <<>> THEN contents
    ELSE ConstrainHoris(ConstrainHori(contents, Head(xs)), Tail(xs))

\* constrain_whitespace l.89-127: the body of the outer loop for index y
ConstrainVert(spaces, y) ==
    LET vert == spaces[y]
        xs == StrongOf(vert.contents)
        vert_spans == [i \in 1..Len(xs) |-> vertical_span(vert.contents[xs[i]].matches[1].pos)]
        s1 == [spaces EXCEPT ![y].contents = ConstrainHoris(vert.contents, xs)]
        s2 == [s1 EXCEPT ![y].span = vert_spans[1]]
        s3 == IF y > 1 THEN [s2 EXCEPT ![y - 1].span.end = vert_spans[1].beg] ELSE s2
        s4 == IF y < Len(spaces) THEN [s3 EXCEPT ![y + 1].span.beg = vert_spans[1].end] ELSE s3
        s5 == IF \A i \in 2..Len(vert_spans) : vert_spans[i] = vert_spans[1] THEN s4 ELSE s1
    IN IF Len(vert_spans) = 0 THEN s1
       ELSE [s5 EXCEPT ![y].contents = SelectSeq(@, HorizontalHasVolume)]

RECURSIVE ConstrainVerts(_, _)
ConstrainVerts(spaces, y) ==
    IF y > Len(spaces) THEN spaces ELSE ConstrainVerts(ConstrainVert(spaces, y), y + 1)

\* descriptor.py: constrain_whitespace.  The list comprehension of l.130
\* reads has_volume of the first VerticalSpace, if there is one.
constrain_whitespace(spaces) ==
    LET constrained == ConstrainVerts(spaces, 1)
    IN IF constrained = <<>> THEN Returned(<<>>)
       ELSE LET v == VerticalHasVolume(constrained[1])
            IN IF v.raised # "none" THEN Raised(v.raised, constrained)
               ELSE Returned(constrained)

\* descriptor.py: PrintoutDescriptor.new
new(image, fontlist) ==
    LET parsed == parse_unknown(image, from_printout(image, <<>>), fontlist)
    IN IF parsed.raised # "none" THEN parsed ELSE constrain_whitespace(parsed.value)

\* descriptor.py: PrintoutDescriptor.extend.  Its first statement, l.33,
\* calls self.printout.extend; printout.py gives Printout no such method,
\* so the call raises AttributeError and nothing after it runs.
extend(self, ext) == Raised("AttributeError", self.contents)

(***************************************************************************)
(* SpecDescriptor: the functions of the descriptor applied to inputs.  The *)
(* bitmap P, the extension E and the fonts are any; the list of            *)
(* VerticalSpaces handed to constrain_whitespace and held by the           *)
(* descriptor that extend is called on is the segmenter's output for P     *)
(* with each UnknownSpace left as it is or replaced by a GlyphSpace with   *)
(* one match, as parse_unknown l.81 would.  A match (parse/glyph.py) has a *)
(* score and the box pos of the glyph, GlyphSize by GlyphSize, placed at   *)
(* the space's corner or one pixel right of or below it.                   *)
(***************************************************************************)
MaxRows == 3
MaxExt == 1
GlyphSize == 1

Rows == [1..DescWidth -> {0, 1}]
Bitmaps(n) == UNION {[1..k -> Rows] : k \in 0..n}
\* The rows of an extension keep the left and the right column blank.
Extensions(n) ==
    {e \in Bitmaps(n) : \A r \in 1..Len(e) : e[r][1] = 0 /\ e[r][DescWidth] = 0}
Font == [width |-> GlyphSize, height |-> GlyphSize]

GlyphMatch(score, pos) == [match |-> score, pos |-> pos]

Candidates ==
    {[kind |-> "none", match |-> 0, dx |-> 0, dy |-> 0],
     [kind |-> "glyph", match |-> 500, dx |-> 0, dy |-> 0],
     [kind |-> "glyph", match |-> 0, dx |-> 0, dy |-> 0],
     [kind |-> "glyph", match |-> 0, dx |-> 1, dy |-> 0],
     [kind |-> "glyph", match |-> 0, dx |-> 0, dy |-> 1]}

\* The box of candidate g for the space hori of vert, kept inside the bitmap
\* of the given length.
GlyphBox(g, hori, vert, length) ==
    LET x == IF hori.span.beg + g.dx + GlyphSize <= DescWidth
             THEN hori.span.beg + g.dx ELSE hori.span.beg
        y == IF vert.span.beg + g.dy + GlyphSize <= length
             THEN vert.span.beg + g.dy ELSE vert.span.beg
    IN BoundingBox(Point(x, y), Point(x + GlyphSize, y + GlyphSize))

\* parse_unknown l.81 for every UnknownSpace that has a candidate: the k-th
\* HorizontalSpace of a VerticalSpace takes candidate choice[(k \div 2) % 2],
\* so that two UnknownSpaces around a WhiteSpace take different ones.
Classified(spaces, choice, length) ==
    [y \in 1..Len(spaces) |->
        [spaces[y] EXCEPT !.contents =
            [x \in 1..Len(spaces[y].contents) |->
                LET hori == spaces[y].contents[x]
                    g == choice[(x \div 2) % 2]
                IN IF hori.type = "UnknownSpace" /\ g.kind = "glyph"
                   THEN GlyphSpace(hori.span,
                                   <<GlyphMatch(g.match, GlyphBox(g, hori, spaces[y], length))>>)
                   ELSE hori]]]

NoCall == [op |-> "none", raised |-> "none", value |-> <<>>, given |-> <<>>]

InitDescriptor ==
    /\ bitmap \in Bitmaps(MaxRows)
    /\ extension \in Extensions(MaxExt)
    /\ fonts \in {<<>>, <<Font>>}
    /\ \E choice \in [0..1 -> Candidates] :
           space = Classified(from_printout(bitmap, <<>>), choice, Len(bitmap))
    /\ outcome = NoCall
    /\ json_data = <<>>
    /\ serial = <<>>
    /\ Fresh

Called(name, given, r) ==
    /\ outcome' = [op |-> name, raised |-> r.raised, value |-> r.value, given |-> given]
    /\ UNCHANGED <<bitmap, extension, fonts, json_data>>
    /\ UNCHANGED codecVars
    /\ UNCHANGED builderVars
    /\ UNCHANGED analyserVars
    /\ UNCHANGED serverVars
    /\ UNCHANGED printout

\* from_printout(P)
DoSegment ==
    /\ Called("from_printout", <<>>, Returned(from_printout(bitmap, <<>>)))
    /\ UNCHANGED space

\* The vertical regions of interest that lie in a printout.
Rois(image) ==
    {roi \in {Span(beg, end) : beg \in 0..Len(image), end \in 0..Len(image)} :
        roi.beg <= roi.end}

\* from_printout(P, roi)
DoSegmentRoi(roi) ==
    /\ Called("from_printout roi", <<roi>>, Returned(from_printout(bitmap, <<roi>>)))
    /\ UNCHANGED space

\* PrintoutDescriptor.new(P, fonts)
DoNew ==
    /\ Called("new", <<>>, new(bitmap, fonts))
    /\ UNCHANGED space

\* PrintoutDescriptor.new(P followed by E, fonts)
DoNewWhole ==
    /\ Called("whole", <<>>, new(bitmap \o extension, fonts))
    /\ UNCHANGED space

\* extend(E) on the descriptor PrintoutDescriptor(P, space, fonts)
DoExtend ==
    /\ Called("extend", space,
              extend([printout |-> bitmap, contents |-> space, fonts |-> fonts], extension))
    /\ UNCHANGED space

\* constrain_whitespace(space); its assignments are made in place
DoConstrain ==
    LET r == constrain_whitespace(space)
    IN /\ Called("constrain", space, r)
       /\ space' = r.value

NextDescriptor == DoSegment \/ DoNew \/ DoNewWhole \/ DoExtend \/ DoConstrain

SpecDescriptor == InitDescriptor /\ [][NextDescriptor]_vars

(***************************************************************************)
(* SpecSegmenter: from_printout alone, called on a printout with and       *)
(* without a vertical region of interest.                                  *)
(***************************************************************************)
InitSegmenter ==
    /\ bitmap \in Bitmaps(MaxRows)
    /\ extension = <<>>
    /\ fonts = <<>>
    /\ space = from_printout(bitmap, <<>>)
    /\ outcome = NoCall
    /\ json_data = <<>>
    /\ serial = <<>>
    /\ Fresh

NextSegmenter ==
    \/ DoSegment
    \/ \E roi \in Rois(bitmap) : DoSegmentRoi(roi)

SpecSegmenter == InitSegmenter /\ [][NextSegmenter]_vars

(***************************************************************************)
(* font.py Font.parse_image and parse/character.py                         *)
(* parse_image_character_bbox: the two matchers.  An object is a record of *)
(* its attributes; reading an attribute it does not have raises            *)
(* AttributeError.  A string is the sequence of its characters.  What the  *)
(* OpenCV calls of the non-blank branch keep (cv.findContours,             *)
(* cv.matchShapes, cv.matchTemplate) is an argument, kept.                 *)
(***************************************************************************)
PointAdd(a, b) == Point(a.x + b.x, a.y + b.y)
PointSub(a, b) == Point(a.x - b.x, a.y - b.y)
BoxWidth(bbox) == bbox.p2.x - bbox.p1.x
BoxHeight(bbox) == bbox.p2.y - bbox.p1.y

\* BoundingBox.clamp
Clamp(self, bbox) ==
    BoundingBox(Point(Max(Min(self.p1.x, bbox.p2.x), bbox.p1.x),
                      Max(Min(self.p1.y, bbox.p2.y), bbox.p1.y)),
                Point(Max(Min(self.p2.x, bbox.p2.x), bbox.p1.x),
                      Max(Min(self.p2.y, bbox.p2.y), bbox.p1.y)))

\* image[bbox.slice]: the rows p1.y..p2.y-1 and in them the columns p1.x..p2.x-1
Crop(image, bbox) ==
    [r \in 1..BoxHeight(bbox) |->
        [c \in 1..BoxWidth(bbox) |-> image[bbox.p1.y + r][bbox.p1.x + c]]]

\* np.any(image)
AnyBurned(image) ==
    \E r \in 1..Len(image) : \E c \in 1..Len(image[r]) : image[r][c] # 0

\* "".join([" " for _ in range(spaces)])
Spaces(n) == [i \in 1..n |-> " "]

\* font.py: CharMatch (char, font, code_point, match)
FontCharMatch(char, font, code_point, match) ==
    [char |-> char, font |-> font, code_point |-> code_point, match |-> match]

\* character.py: CharMatch (char, font, code_point, match, pos)
CharMatch(char, font, code_point, match, pos) ==
    [char |-> char, font |-> font, code_point |-> code_point, match |-> match,
     pos |-> pos]

\* font.py: the attributes Font.__init__ sets that the matchers read
FontObject(w, h) == [name |-> "font", glyph_width |-> w, glyph_height |-> h]

\* An object with the attributes parse_image_character_bbox reads of its
\* font argument.
SizedObject(w, h) == [name |-> "font", width |-> w, height |-> h]

HasAttrs(obj, attrs) == attrs \subseteq DOMAIN obj

\* font.py: Font.parse_image.  image is the region handed to it; kept are
\* the matches that pass the contour and the template filter.
ParseImage(self, image, kept) ==
    IF ~AnyBurned(image)
    THEN Returned(<<FontCharMatch(Spaces(Len(image[1]) \div self.glyph_width),
                                  self.name, 32, 0)>>)
    ELSE Returned(kept)

\* Python's int(n / 2): the quotient truncated towards zero
IntHalf(n) == IF n >= 0 THEN n \div 2 ELSE -((-n) \div 2)

\* BoundingBox.center
Center(bbox) ==
    Point(bbox.p1.x + IntHalf(bbox.p2.x - bbox.p1.x),
          bbox.p1.y + IntHalf(bbox.p2.y - bbox.p1.y))

\* character.py l.38-46: the target region padded to the font's size and
\* clamped to the image
PaddedBox(image, bbox, font) ==
    LET xpad == IF BoxWidth(bbox) < font.width
                THEN font.width - BoxWidth(bbox) ELSE 0
        ypad == IF BoxHeight(bbox) < font.height
                THEN font.height - BoxHeight(bbox) ELSE 0
        image_bbox == BoundingBox(Point(0, 0), Point(DescWidth, Len(image)))
    IN Clamp(BoundingBox(PointSub(bbox.p1, Point(xpad, ypad)),
                         PointAdd(bbox.p2, Point(xpad, ypad))),
             image_bbox)

\* template_similarity(character, glyph): cv.matchTemplate slides the smaller
\* of its two arguments over the larger and minMaxLoc gives the offset of the
\* best place, any place of the result; when neither argument fits in the
\* other there is no result and cv raises.
TemplateOffsets(padded, font) ==
    LET pw == BoxWidth(padded)
        ph == BoxHeight(padded)
    IN IF pw >= font.width /\ ph >= font.height
       THEN {Point(x, y) : x \in 0..(pw - font.width), y \in 0..(ph - font.height)}
       ELSE IF pw <= font.width /\ ph <= font.height
       THEN {Point(x, y) : x \in 0..(font.width - pw), y \in 0..(font.height - ph)}
       ELSE {}

\* character.py l.88-127: pos of a match whose template result is at
\* match_top_left
MatchPos(image, bbox, font, match_top_left) ==
    LET bbox_padded == PaddedBox(image, bbox, font)
        image_bbox == BoundingBox(Point(0, 0), Point(DescWidth, Len(image)))
        result_width == BoxWidth(bbox_padded) - font.width + 1
        result_height == BoxHeight(bbox_padded) - font.height + 1
        centre_in_padded == Point(match_top_left.x + IntHalf(result_width),
                                  match_top_left.y + IntHalf(result_height))
        transform_vector == Point(bbox.p1.x - bbox_padded.p1.x,
                                  bbox.p1.y - bbox_padded.p1.y)
        match_center == PointAdd(Center(bbox_padded),
                                 PointSub(centre_in_padded, transform_vector))
        corner_offset == Point(IntHalf(font.width), IntHalf(font.height))
    IN Clamp(BoundingBox(PointSub(match_center, corner_offset),
                         PointAdd(match_center, corner_offset)),
             image_bbox)

\* character.py: parse_image_character_bbox.  image is the whole bitmap,
\* bbox the target region.  l.39 reads font.width first.  passed are the
\* glyphs that pass the contour filter (l.77-80), each with what
\* template_similarity gives for it; those it raises for end the call, the
\* others pass the template filter.
parse_image_character_bbox(image, bbox, font, passed) ==
    IF ~HasAttrs(font, {"width", "height"})
    THEN Raised("AttributeError", <<>>)
    ELSE LET character == Crop(image, PaddedBox(image, bbox, font))
         IN IF ~AnyBurned(character)
            THEN Returned(<<CharMatch(Spaces(DescWidth \div font.width), font.name, 32, 0,
                                      BoundingBox(Point(0, 0), Point(0, 0)))>>)
            ELSE IF \E i \in 1..Len(passed) : passed[i].raised
            THEN Raised("cv2.error", <<>>)
            ELSE Returned([i \in 1..Len(passed) |->
                              CharMatch(<<"A">>, font.name, passed[i].code_point,
                                        passed[i].match,
                                        MatchPos(image, bbox, font, passed[i].offset))])

(***************************************************************************)
(* SpecMatcher: the two matchers applied to a bitmap, a target region of   *)
(* it that is not empty, and a font: a Font of font.py or an object with   *)
(* the attributes width and height.                                        *)
(***************************************************************************)
MatchRows == 2
MaxGlyph == 2

MatcherFonts ==
    {FontObject(w, h) : w \in 1..MaxGlyph, h \in 1..MaxGlyph}
        \cup {SizedObject(w, h) : w \in 1..MaxGlyph, h \in 1..MaxGlyph}

Regions(image) ==
    {BoundingBox(Point(x1, y1), Point(x2, y2)) :
        x1 \in 0..DescWidth, x2 \in 0..DescWidth,
        y1 \in 0..Len(image), y2 \in 0..Len(image)}

Boxes(image) == {b \in Regions(image) : BoxWidth(b) > 0 /\ BoxHeight(b) > 0}

\* What the contour filter of parse_image_character_bbox may let pass: nothing,
\* or the glyph 'A' with one of the results template_similarity can give.
Passed(image, bbox, font) ==
    IF ~HasAttrs(font, {"width", "height"}) THEN {<<>>}
    ELSE LET offsets == TemplateOffsets(PaddedBox(image, bbox, font), font)
         IN {<<>>}
            \cup {<<[code_point |-> 65, match |-> 0, offset |-> o, raised |-> FALSE]>> :
                      o \in offsets}
            \cup {<<[code_point |-> 65, match |-> 0, offset |-> Point(0, 0),
                     raised |-> TRUE]>> : e \in IF offsets = {} THEN {1} ELSE {}}

\* What the filters of the non-blank branch may keep: nothing, or a match
\* for the glyph 'A' at the region.
Kept(bbox, font, withPos) ==
    {<<>>,
     <<IF withPos THEN CharMatch(<<"A">>, font.name, 65, 0, bbox)
       ELSE FontCharMatch(<<"A">>, font.name, 65, 0)>>}

InitMatcher ==
    /\ bitmap \in Bitmaps(MatchRows)
    /\ fonts \in {<<f>> : f \in MatcherFonts}
    /\ extension = <<>>
    /\ space = <<>>
    /\ outcome = NoCall
    /\ json_data = <<>>
    /\ serial = <<>>
    /\ Fresh

\* font.parse_image(image[bbox.slice]), a method of Font
DoParseImage(bbox) ==
    /\ HasAttrs(fonts[1], {"name", "glyph_width", "glyph_height"})
    /\ \E kept \in Kept(bbox, fonts[1], FALSE) :
           Called("parse_image", <<bbox>>, ParseImage(fonts[1], Crop(bitmap, bbox), kept))
    /\ UNCHANGED space

\* parse_image_character_bbox(image, bbox, font)
DoParseBBox(bbox) ==
    /\ \E passed \in Passed(bitmap, bbox, fonts[1]) :
           Called("parse_image_character_bbox", <<bbox, passed>>,
                  parse_image_character_bbox(bitmap, bbox, fonts[1], passed))
    /\ UNCHANGED space

NextMatcher == \E bbox \in Boxes(bitmap) : DoParseImage(bbox) \/ DoParseBBox(bbox)

SpecMatcher == InitMatcher /\ [][NextMatcher]_vars

(***************************************************************************)
(* font.py: Font.from_json and Font.into_bold.  A glyph bitmap is a        *)
(* sequence of rows of elements 0/255; a byte is an integer 0..255; a JSON *)
(* key is the sequence of the values of its hex digits.  The contours that *)
(* Font.__init__ has OpenCV extract are left out.                          *)
(***************************************************************************)
\* int(cp, base=16)
RECURSIVE HexToInt(_)
HexToInt(digits) ==
    IF digits = <<>> THEN 0
    ELSE 16 * HexToInt(SubSeq(digits, 1, Len(digits) - 1)) + digits[Len(digits)]

\* math.ceil(glyph_width / 8.0)
RowBytes(glyph_width) == (glyph_width + 7) \div 8

\* np.where(data != 0, 255, 0)
To255(row) == [c \in 1..Len(row) |-> IF row[c] # 0 THEN 255 ELSE 0]
\* np.where(glyph != 0, 1, 0)
To1(row) == [c \in 1..Len(row) |-> IF row[c] # 0 THEN 1 ELSE 0]

\* np.packbits of one row: 8 columns a byte, the first the most significant,
\* the last byte filled up with zeros
PackBits(row) ==
    [k \in 1..((Len(row) + 7) \div 8) |->
        LET bit(i) == IF 8 * (k - 1) + i <= Len(row) THEN row[8 * (k - 1) + i] ELSE 0
        IN bit(1) * 128 + bit(2) * 64 + bit(3) * 32 + bit(4) * 16
               + bit(5) * 8 + bit(6) * 4 + bit(7) * 2 + bit(8)]

\* The operator | of two integers that are not negative
RECURSIVE BitOr(_, _)
BitOr(a, b) ==
    IF a = 0 THEN b
    ELSE IF b = 0 THEN a
    ELSE Max(a % 2, b % 2) + 2 * BitOr(a \div 2, b \div 2)

\* The glyph that from_json l.64-66 makes of the byte list glyph_data
GlyphFromBytes(glyph_data, row_bytes) ==
    [r \in 1..(Len(glyph_data) \div row_bytes) |->
        To255(UnpackBits(SubSeq(glyph_data, (r - 1) * row_bytes + 1, r * row_bytes)))]

\* Font(name, glyph_width, glyph_height, code_points, glyphs)
NewFont(name, glyph_width, glyph_height, code_points, glyphs) ==
    [name |-> name, glyph_width |-> glyph_width, glyph_height |-> glyph_height,
     _code_points |-> code_points, _glyphs |-> glyphs]

\* Font.from_json: json_data["glyphs"] is the sequence of its items
from_json(json) ==
    LET row_bytes == RowBytes(json.glyph_width)
    IN NewFont(json.name, json.glyph_width, json.glyph_height,
               [i \in 1..Len(json.glyphs) |-> HexToInt(json.glyphs[i][1])],
               [i \in 1..Len(json.glyphs) |-> GlyphFromBytes(json.glyphs[i][2], row_bytes)])

BoldRow_NoCarry(packed) ==
    [packed EXCEPT ![2] = BitOr(packed[2], packed[2] \div 2) % 256,
                   ![1] = BitOr(packed[1], packed[1] \div 2) % 256]

\* into_bold l.89-90 on the bytes of one row; what is stored in the uint8
\* array keeps 8 bits
BoldRow(packed) ==
    [packed EXCEPT ![2] = BitOr(packed[2], BitOr(packed[2] \div 2, packed[1] * 128)) % 256,
                   ![1] = BitOr(packed[1], packed[1] \div 2) % 256]

\* into_bold l.83-93 for one glyph: glyph[r, 1] raises IndexError when a row
\* packs into one byte
BoldGlyph(glyph) ==
    IF \E r \in 1..Len(glyph) : Len(PackBits(To1(glyph[r]))) < 2
    THEN Raised("IndexError", glyph)
    ELSE Returned([r \in 1..Len(glyph) |->
                      To255(UnpackBits(BoldRow(PackBits(To1(glyph[r])))))])

\* Font.into_bold; the name "-bold" is appended to is kept as a pair
into_bold(self) ==
    IF \E i \in 1..Len(self._glyphs) : BoldGlyph(self._glyphs[i]).raised # "none"
    THEN Raised("IndexError", <<>>)
    ELSE Returned(NewFont(<<self.name, "-bold">>, self.glyph_width, self.glyph_height,
                          self._code_points,
                          [i \in 1..Len(self._glyphs) |-> BoldGlyph(self._glyphs[i]).value]))

(***************************************************************************)
(* SpecFont: a font is loaded from a JSON descriptor with one glyph, whose *)
(* byte list has glyph_height * ceil(glyph_width / 8) bytes, and its bold  *)
(* derivation is made, as app.py does.                                     *)
(***************************************************************************)
MaxHeight == 2
GlyphWidths == {7, 12, 16}
GlyphBytes == {0, 1, 2, 64, 128, 129, 255}
GlyphKeys == {<<4, 1>>, <<4, 9>>}

JsonFonts ==
    {[name |-> "font", glyph_width |-> w, glyph_height |-> h, glyphs |-> <<<<k, d>>>>] :
        w \in GlyphWidths, h \in 1..MaxHeight, k \in GlyphKeys,
        d \in UNION {[1..(hh * RowBytes(ww)) -> GlyphBytes] :
                        hh \in 1..MaxHeight, ww \in GlyphWidths}}

InitFont ==
    /\ json_data \in {j \in JsonFonts :
                         Len(j.glyphs[1][2]) = j.glyph_height * RowBytes(j.glyph_width)}
    /\ bitmap = <<>>
    /\ extension = <<>>
    /\ fonts = <<>>
    /\ space = <<>>
    /\ outcome = NoCall
    /\ serial = <<>>
    /\ Fresh

FontCalled(name, raised) ==
    /\ outcome' = [op |-> name, raised |-> raised, value |-> <<>>, given |-> <<>>]
    /\ UNCHANGED <<bitmap, extension, space, json_data>>
    /\ UNCHANGED codecVars
    /\ UNCHANGED builderVars
    /\ UNCHANGED analyserVars
    /\ UNCHANGED serverVars
    /\ UNCHANGED printout

\* arial16 = Font.from_json(...)
FromJson ==
    /\ fonts = <<>>
    /\ fonts' = <<from_json(json_data)>>
    /\ FontCalled("from_json", "none")

\* [arial16, arial16.into_bold()]
IntoBold ==
    /\ Len(fonts) = 1
    /\ LET r == into_bold(fonts[1])
       IN /\ fonts' = IF r.raised = "none" THEN Append(fonts, r.value) ELSE fonts
          /\ FontCalled("into_bold", r.raised)

NextFont == FromJson \/ IntoBold

SpecFont == InitFont /\ [][NextFont]_vars

(***************************************************************************)
(* The wire format the claims speak of.  A frame body is well formed when  *)
(* every control byte in it is escaped: it is a run of tokens, each a      *)
(* non-control byte or ESCAPE followed by any byte.  A well-formed stream  *)
(* is a run of frames FRAME_START body FRAME_END.                          *)
(***************************************************************************)
IsControl(b) == b \in {FRAME_START, FRAME_END, ESCAPE}
NoControl(s) == \A i \in 1..Len(s) : ~IsControl(s[i])

RECURSIVE ValidBody(_)
ValidBody(s) ==
    IF s = <<>> THEN TRUE
    ELSE IF s[1] = ESCAPE THEN Len(s) >= 2 /\ ValidBody(SubSeq(s, 3, Len(s)))
    ELSE IF IsControl(s[1]) THEN FALSE
    ELSE ValidBody(Tail(s))

\* The payload a well-formed body stands for: its bytes with the escapes removed.
RECURSIVE Payload(_)
Payload(s) ==
    IF s = <<>> THEN <<>>
    ELSE IF s[1] = ESCAPE THEN <<s[2]>> \o Payload(SubSeq(s, 3, Len(s)))
    ELSE <<s[1]>> \o Payload(Tail(s))

\* The index of the FRAME_END closing the well-formed body that starts at i; 0 if none.
RECURSIVE FrameEnd(_, _)
FrameEnd(s, i) ==
    IF i > Len(s) THEN 0
    ELSE IF s[i] = ESCAPE THEN (IF i + 1 > Len(s) THEN 0 ELSE FrameEnd(s, i + 2))
    ELSE IF s[i] = FRAME_END THEN i
    ELSE IF s[i] = FRAME_START THEN 0
    ELSE FrameEnd(s, i + 1)

RECURSIVE WellFormed(_)
WellFormed(s) ==
    \/ s = <<>>
    \/ /\ s[1] = FRAME_START
       /\ LET e == FrameEnd(s, 2)
          IN e > 0 /\ WellFormed(SubSeq(s, e + 1, Len(s)))

\* The payloads of the frames of a well-formed stream, in order.
RECURSIVE Payloads(_)
Payloads(s) ==
    IF s = <<>> THEN <<>>
    ELSE LET e == FrameEnd(s, 2)
         IN <<Payload(SubSeq(s, 2, e - 1))>> \o Payloads(SubSeq(s, e + 1, Len(s)))

\* The index of the first FRAME_START of s; 0 if it has none.
FirstStart(s) ==
    IF \E i \in 1..Len(s) : s[i] = FRAME_START
    THEN CHOOSE i \in 1..Len(s) :
            s[i] = FRAME_START /\ \A j \in 1..(i - 1) : s[j] # FRAME_START
    ELSE 0

\* The index of the first escaped FRAME_START (ESCAPE FRAME_START) of a
\* well-formed body, counted at the FRAME_START; 0 if it has none.
RECURSIVE EscapedStart(_, _)
EscapedStart(s, i) ==
    IF i > Len(s) THEN 0
    ELSE IF s[i] = ESCAPE
         THEN (IF i + 1 <= Len(s) /\ s[i + 1] = FRAME_START THEN i + 1
               ELSE EscapedStart(s, i + 2))
         ELSE EscapedStart(s, i + 1)

(***************************************************************************)
(* C2.  Codec round trip: for S free of control bytes, feeding             *)
(* FRAME_START S FRAME_END to a fresh decoder returns no frame on any byte *)
(* before the final FRAME_END and returns exactly S on it.                 *)
(***************************************************************************)
C2_RoundTrip ==
    /\ (fed # <<>> /\ fed[1] = FRAME_START /\ NoControl(Tail(fed)))
          => /\ emitted = <<>>
             /\ last = None
    /\ (/\ Len(fed) >= 2
        /\ fed[1] = FRAME_START
        /\ fed[Len(fed)] = FRAME_END
        /\ NoControl(SubSeq(fed, 2, Len(fed) - 1)))
          => /\ emitted = <<SubSeq(fed, 2, Len(fed) - 1)>>
             /\ last = Some(SubSeq(fed, 2, Len(fed) - 1))

C2_Witness ==
    /\ Len(fed) >= 5
    /\ fed[1] = FRAME_START
    /\ fed[Len(fed)] = FRAME_END
    /\ NoControl(SubSeq(fed, 2, Len(fed) - 1))
    /\ \E i \in 2..(Len(fed) - 1) : fed[i] # fed[2]
    /\ emitted = <<SubSeq(fed, 2, Len(fed) - 1)>>

(***************************************************************************)
(* C3.  A frame (with a non-empty body) that lost its FRAME_END, followed   *)
(* by a well-formed frame with a non-empty payload: the claim is that only *)
(* the damaged frame is missing, the well-formed frame is still emitted.   *)
(***************************************************************************)
C3_FollowingFrameEmitted ==
    \A i \in 3..Len(fed) :
        (/\ fed[1] = FRAME_START
         /\ ValidBody(SubSeq(fed, 2, i - 1))
         /\ fed[i] = FRAME_START
         /\ FrameEnd(fed, i + 1) = Len(fed)
         /\ Len(fed) > i + 1)
          => emitted = <<Payload(SubSeq(fed, i + 1, Len(fed) - 1))>>

(***************************************************************************)
(* C4.  One extra unescaped FRAME_START inside a frame of an otherwise     *)
(* well-formed stream.  fed = Pre . FRAME_START A FRAME_START B FRAME_END  *)
(* . Rest, with Pre and Rest well formed and A, B well-formed bodies (the  *)
(* extra byte sits between two tokens of the body A.B).                    *)
(***************************************************************************)
\* The frame the decoder makes of the rest of the aborted frame, if any.
Spurious(B) ==
    IF EscapedStart(B, 1) = 0 THEN <<>>
    ELSE <<Payload(SubSeq(B, EscapedStart(B, 1) + 1, Len(B)))>>

Damaged(s, i) ==
    /\ s >= 1 /\ i > s /\ i <= Len(fed)
    /\ WellFormed(SubSeq(fed, 1, s - 1))
    /\ fed[s] = FRAME_START
    /\ ValidBody(SubSeq(fed, s + 1, i - 1))
    /\ fed[i] = FRAME_START
    /\ FrameEnd(fed, i + 1) > 0
    /\ WellFormed(SubSeq(fed, FrameEnd(fed, i + 1) + 1, Len(fed)))

DamagedA(s, i) == SubSeq(fed, s + 1, i - 1)
DamagedB(i) == SubSeq(fed, i + 1, FrameEnd(fed, i + 1) - 1)
DamagedPre(s) == SubSeq(fed, 1, s - 1)
DamagedRest(i) == SubSeq(fed, FrameEnd(fed, i + 1) + 1, Len(fed))

\* C4 as claimed: nothing is emitted for the aborted frame, and the other
\* frames are emitted unchanged.
C4_OnlyThatFrameAborted ==
    \A s \in 1..Len(fed) : \A i \in 1..Len(fed) :
        Damaged(s, i) =>
            emitted = Payloads(DamagedPre(s)) \o Payloads(DamagedRest(i))

\* C4 as amended: the aborted frame's payload is never emitted and every
\* other frame is emitted unchanged and in order; exactly when the bytes after
\* the extra FRAME_START hold an escaped FRAME_START, one spurious frame (the
\* payload that follows that escaped FRAME_START) is emitted in its place.
C4_AbortedFrameAmended ==
    \A s \in 1..Len(fed) : \A i \in 1..Len(fed) :
        Damaged(s, i) =>
            /\ emitted = Payloads(DamagedPre(s)) \o Spurious(DamagedB(i))
                            \o Payloads(DamagedRest(i))
            /\ Spurious(DamagedB(i)) # <<Payload(DamagedA(s, i) \o DamagedB(i))>>

C4_Witness ==
    \E s \in 1..Len(fed) : \E i \in 1..Len(fed) :
        /\ Damaged(s, i)
        /\ DamagedA(s, i) # <<>>
        /\ DamagedB(i) # <<>>
        /\ DamagedRest(i) # <<>>
        /\ emitted = Payloads(DamagedRest(i))
        /\ emitted # <<>>

(***************************************************************************)
(* C5.  From Idle, garbage without FRAME_START (FRAME_END and ESCAPE       *)
(* included) before a well-formed frame is discarded: while only garbage   *)
(* has been fed no frame is emitted and the decoder is Idle with no        *)
(* pending escape, and the frame that follows decodes to its payload, the  *)
(* same with and without the garbage.                                      *)
(***************************************************************************)
C5_GarbageDiscarded ==
    /\ FirstStart(fed) = 0
          => /\ emitted = <<>>
             /\ parser.state = Idle
             /\ ~parser.escape_next
    /\ LET k == FirstStart(fed)
       IN (k > 0 /\ FrameEnd(fed, k + 1) = Len(fed))
             => /\ emitted = <<Payload(SubSeq(fed, k + 1, Len(fed) - 1))>>
                /\ last = Some(Payload(SubSeq(fed, k + 1, Len(fed) - 1)))

C5_Witness ==
    LET k == FirstStart(fed)
    IN /\ k > 2
       /\ \E j \in 1..(k - 1) : fed[j] = ESCAPE
       /\ \E j \in 1..(k - 1) : fed[j] = FRAME_END
       /\ fed[k - 1] = ESCAPE
       /\ FrameEnd(fed, k + 1) = Len(fed)
       /\ Len(fed) > k + 1
       /\ emitted = <<Payload(SubSeq(fed, k + 1, Len(fed) - 1))>>

(***************************************************************************)
(* C6.  Stable prefix.  Rows are followed through the downward shift of a  *)
(* prepend: row i of the snapshot is row i + shift of the buffer.          *)
(***************************************************************************)
SnapshotRowsUnchanged ==
    \A i \in 1..Len(track.snap.val) :
        track.snap.val[i] = Multiply255(printout.image)[i + track.shift]

\* C6 as claimed: after any line_advance, line_reverse and burn_line, no row
\* that an earlier get_image returned has changed.
C6_StablePrefix ==
    track.snap # None => SnapshotRowsUnchanged

\* C6 as amended: get_image excludes the last row of the buffer, which is the
\* row the cursor addresses only while the cursor is on the last row.  If
\* the cursor was on the last row when get_image was called and has not been
\* above that row since, no later line_advance, line_reverse or burn_line has
\* changed a returned row.
C6_StablePrefixAmended ==
    /\ (track.snap # None /\ ~track.below) => SnapshotRowsUnchanged
    /\ (op = "get_image" /\ ret # None)
          => ret.val = Multiply255(SubSeq(printout.image, 1, Len(printout.image) - 1))

C6_Witness ==
    /\ track.snap # None
    /\ ~track.below
    /\ op = "burn_line"
    /\ printout # prev
    /\ Len(printout.image) > Len(track.snap.val) + 1
    /\ \E i \in 1..Len(track.snap.val) : track.snap.val[i] # [c \in 1..HEAD_WIDTH |-> 0]

(***************************************************************************)
(* C7.  Builder monotonicity: line_advance, line_reverse and burn_line     *)
(* (also when it raises) remove no row and clear no set pixel; a row is    *)
(* followed through the shift of a prepend.                                *)
(***************************************************************************)
PrependShift == IF op = "line_reverse" /\ prev.line = 0 THEN 1 ELSE 0

C7_Monotonic ==
    op \in {"line_advance", "line_reverse", "burn_line", "burn_line raised"}
        => /\ Len(printout.image) >= Len(prev.image)
           /\ \A i \in 1..Len(prev.image) : \A c \in 1..HEAD_WIDTH :
                  prev.image[i][c] = 1 => printout.image[i + PrependShift][c] = 1

C7_Witness ==
    /\ op = "burn_line"
    /\ prev.image[prev.line + 1] # ZeroRow
    /\ printout.image[printout.line + 1] # prev.image[prev.line + 1]
    /\ Len(printout.image) >= 3
    /\ printout.line = 1

(***************************************************************************)
(* C8.  Motion alone, from a fresh builder: every pixel is 0, and the      *)
(* number of rows is 1 + (max - min) of the cursor.                        *)
(***************************************************************************)
AllPixelsZero == \A i \in 1..Len(printout.image) : printout.image[i] = ZeroRow

\* C8 as claimed: the cursor is the builder's _line.
C8_HeightFromLine ==
    track.motionOnly
        => /\ AllPixelsZero
           /\ Len(printout.image) = 1 + (track.maxLine - track.minLine)

\* C8 as amended: the cursor is the net paper position, the number of
\* line_advance calls minus the number of line_reverse calls; _line itself
\* never goes below 0 and is that position minus its minimum.
C8_HeightFromPosition ==
    track.motionOnly
        => /\ AllPixelsZero
           /\ Len(printout.image) = 1 + (track.maxPos - track.minPos)
           /\ printout.line = track.pos - track.minPos
           /\ track.minLine = 0

C8_Witness ==
    /\ track.motionOnly
    /\ track.minPos < 0
    /\ track.maxPos > 0
    /\ track.pos = 0
    /\ Len(printout.image) = 1 + (track.maxPos - track.minPos)

(***************************************************************************)
(* C9.  take_printout returns what get_printout would have returned at     *)
(* that moment, and leaves exactly one row, the former last row with its   *)
(* burns, and the cursor at 0; a get_printout right after returns None.    *)
(***************************************************************************)
C9_TakeThenClear ==
    op = "take_printout"
        => /\ ret = GetImage(prev)
           /\ ret = (IF Len(prev.image) <= 1 THEN None
                     ELSE Some(Multiply255(SubSeq(prev.image, 1, Len(prev.image) - 1))))
           /\ printout.image = <<prev.image[Len(prev.image)]>>
           /\ printout.line = 0
           /\ GetImage(printout) = None

C9_Witness ==
    /\ op = "take_printout"
    /\ ret # None
    /\ Len(prev.image) >= 3
    /\ prev.line > 0
    /\ prev.image[Len(prev.image)] # ZeroRow
    /\ printout.image = <<prev.image[Len(prev.image)]>>


(***************************************************************************)
(* C1.  Chunking.  However the stream is split over read_all calls, the    *)
(* frames process dispatches to the builder, over all calls, are the       *)
(* frames one decoder makes of the whole stream fed byte by byte.          *)
(***************************************************************************)
\* One FrameProtocol fed all of s, byte by byte: the frames it returns.
RECURSIVE OneDecoder(_, _)
OneDecoder(p, s) ==
    IF s = <<>> THEN <<>>
    ELSE LET r == ProcessByte(p, Head(s))
         IN (IF r.ret = None THEN <<>> ELSE <<r.ret.val>>) \o OneDecoder(r.p, Tail(s))

C1_DispatchedEqualsOneDecoder ==
    log.applied = OneDecoder(NewFrameProtocol, log.wire)

\* The decode loops alone: the frames handed to the dispatch loops.
DecodedEqualsOneDecoder ==
    log.decoded = OneDecoder(NewFrameProtocol, log.wire)


(***************************************************************************)
(* C10: every call of get_printout / take_printout returns: a caller that  *)
(* has put its PRINTOUT_GET or PRINTOUT_TAKE request and blocks in         *)
(* printout.get() eventually gets a response, also when an EXIT request    *)
(* was put before it or the worker has already ended.  A worker that is    *)
(* "exited", "raised" or "killed" takes no further step: the process is    *)
(* gone, and nothing else puts on the printout queue.                      *)
(***************************************************************************)
C10_EveryCallReturns ==
    \A c \in Callers : (callers[c] = "waiting") ~> (callers[c] = "idle")


(***************************************************************************)
(* C11: the responses published so far (those still on the printout queue  *)
(* and those the callers have taken off it) are as many as the             *)
(* PRINTOUT_GET and PRINTOUT_TAKE requests the worker has handled so far:  *)
(* each of these publishes exactly one item, no other request publishes.   *)
(***************************************************************************)
Published == Len(printoutQ) + slog.received

HandledOf(kinds) == Cardinality({i \in 1..Len(slog.handled) : slog.handled[i] \in kinds})

C11_OneResponsePerGetTake ==
    Published = HandledOf({"PRINTOUT_GET", "PRINTOUT_TAKE"})

C11_Witness ==
    /\ HandledOf({"PRINTOUT_GET"}) = 1
    /\ HandledOf({"PRINTOUT_TAKE"}) = 1
    /\ HandledOf(SetRequests) = 1
    /\ Published = 2
    /\ slog.received = 1


(***************************************************************************)
(* C12: the worker takes the requests in the order they were put, one per  *)
(* loop iteration that finds the queue non-empty, and only after the       *)
(* process call of that iteration; the command frames written to the port  *)
(* are those of the set requests handled, in the order they were put.      *)
(* (requests is the queue as the worker process sees it.)                  *)
(***************************************************************************)
RECURSIVE CommandFrames(_)
CommandFrames(reqs) ==
    IF reqs = <<>> THEN <<>>
    ELSE (IF Head(reqs) \in SetRequests THEN CommandToBytes(CommandOf(Head(reqs))) ELSE <<>>)
            \o CommandFrames(Tail(reqs))

HandledInOrder ==
    /\ slog.enqueued = slog.handled \o requests
    /\ written = CommandFrames(slog.handled)

OnePerIteration ==
    /\ (slog.handled' # slog.handled)
          => /\ slog.ran
             /\ requests # <<>>
             /\ slog.handled' = Append(slog.handled, Head(requests))
    /\ (wpc = "poll" /\ wpc' = "process" /\ requests # <<>>)
          => Len(slog.handled') = Len(slog.handled) + 1

C12_RequestsInOrder == [] HandledInOrder /\ [][OnePerIteration]_vars

C12_Witness ==
    /\ slog.handled = <<"RECORDING_STOP", "PRINTOUT_GET", "SET_PAPER_IN">>
    /\ written = CommandToBytes(Command_RecordingStop) \o CommandToBytes(Command_SetPaperIn)
    /\ slog.enqueued = slog.handled


(***************************************************************************)
(* C13: the snapshot published for a PRINTOUT_GET / PRINTOUT_TAKE request  *)
(* is taken after every byte the port had received when the request was    *)
(* put has been read by a process call: no such byte is still unread when  *)
(* the worker handles the request.                                         *)
(***************************************************************************)
C13_NoByteUnprocessed ==
    \A i \in 1..Len(slog.handled) :
        slog.handled[i] \in {"PRINTOUT_GET", "PRINTOUT_TAKE"} => ~slog.missed[i]


(***************************************************************************)
(* C14: once EXIT has been put the worker eventually ends by taking it,    *)
(* having handled every request put before it (or is ended by kill());     *)
(* after taking EXIT it handles no request, publishes no response and      *)
(* reads no serial data.                                                   *)
(***************************************************************************)
ExitPut == \E i \in 1..Len(slog.enqueued) : slog.enqueued[i] = "EXIT"

FirstExit == CHOOSE i \in 1..Len(slog.enqueued) :
                /\ slog.enqueued[i] = "EXIT"
                /\ \A j \in 1..(i - 1) : slog.enqueued[j] # "EXIT"

C14_ExitHandledInTurn == (ExitPut /\ Alive) ~> (wpc = "exited" \/ wpc = "killed")

\* What does hold of EXIT: a worker that has taken EXIT has handled exactly the
\* requests up to it, and does nothing afterwards.
ExitedInTurn ==
    wpc = "exited" => (ExitPut /\ slog.handled = SubSeq(slog.enqueued, 1, FirstExit))

NothingAfterExit ==
    wpc = "exited" => /\ wpc' = "exited"
                      /\ slog.handled' = slog.handled
                      /\ Len(printoutQ') <= Len(printoutQ)
                      /\ Published' = Published
                      /\ log' = log /\ serial' = serial /\ printout' = printout
                      /\ written' = written

ExitOrderly == [] ExitedInTurn /\ [][NothingAfterExit]_vars

\* Once EXIT has been put the worker does end, one way or another.
ExitEndsWorker == ExitPut ~> ~Alive


(***************************************************************************)
(* C15: an error raised inside a worker tick does not end the worker: it   *)
(* is caught at the tick boundary and put on the printout queue as an      *)
(* error, and the worker goes on serving; only EXIT ends it (and kill()).  *)
(***************************************************************************)
C15_ErrorDoesNotEndWorker ==
    /\ wpc \in {"process", "poll", "exited", "killed"}
    /\ log.raised => Published > HandledOf({"PRINTOUT_GET", "PRINTOUT_TAKE"})


(***************************************************************************)
(* C16: a BurnLine frame whose payload is not as long as the head is wide  *)
(* (48 bytes in the source, HeadBytes here) is not fatal: no process call  *)
(* raises, and every frame decoded is applied to the builder.              *)
(***************************************************************************)
C16_WrongLengthNotFatal ==
    /\ ~log.raised
    /\ log.applied = log.decoded


(***************************************************************************)
(* C17.  Scenario S1: a fresh analyser has processed the single frame      *)
(* FRAME_START 'F' FRAME_END.  The cursor is then 1; the claim is that     *)
(* get_image still returns nothing.                                        *)
(***************************************************************************)
AfterS1 == log.wire = AdvanceFrame

C17_S1ReturnsNothing ==
    AfterS1 => /\ printout.line = 1
               /\ GetImage(printout) = None

\* What get_image returns then: the one row above the cursor's row, all 0.
C17_S1ReturnsBlankRow ==
    AfterS1 => /\ printout.line = 1
               /\ Len(printout.image) = 2
               /\ GetImage(printout) = Some(<<ZeroRow>>)

C17_Witness == AfterS1 /\ printout.line = 1 /\ serial # <<>>

(***************************************************************************)
(* C18.  Scenario S2: a fresh analyser has processed three times (a burn   *)
(* line with every payload byte 0xFF, then an advance).  The claim is that *)
(* get_image returns 2 rows, every pixel 255.                              *)
(***************************************************************************)
AfterS2 == log.wire = Repeat(BurnFrame(255) \o AdvanceFrame, 3)

FullRows(n) == [r \in 1..n |-> [c \in 1..HEAD_WIDTH |-> 255]]

C18_S2ReturnsTwoRows == AfterS2 => GetImage(printout) = Some(FullRows(2))

\* It returns 3 rows: the three burned rows are above the cursor's row.
C18_S2ReturnsThreeRows ==
    AfterS2 => /\ GetImage(printout) = Some(FullRows(3))
               /\ printout.line = 3
               /\ Len(printout.image) = 4

C18_Witness == AfterS2 /\ printout.line = 3

(***************************************************************************)
(* C19.  For any printout P and any extension E, building a descriptor     *)
(* over P and then calling extend(E) yields the VerticalSpace list of      *)
(* PrintoutDescriptor.new over the rows of P followed by the rows of E:    *)
(* the build over P returns a descriptor, extend(E) on a descriptor over P *)
(* returns, and it leaves the contents that the build over P and E         *)
(* returns.                                                                *)
(***************************************************************************)
C19_ExtendEqualsNew ==
    /\ outcome.op = "new" => outcome.raised = "none"
    /\ outcome.op = "extend" =>
            /\ outcome.raised = "none"
            /\ new(bitmap \o extension, fonts).raised = "none"
            /\ outcome.value = new(bitmap \o extension, fonts).value

\* The build raises for every printout, the empty one included, and so does
\* every extend.
NewAlwaysRaises == outcome.op \in {"new", "whole"} => outcome.raised = "TypeError"
ExtendAlwaysRaises == outcome.op = "extend" => outcome.raised = "AttributeError"

(***************************************************************************)
(* C20.  Refinement monotonicity: after the constrain pass every           *)
(* GlyphSpace whose top match is strong has an x-span equal to that        *)
(* match's pos.horizontal_span, its surviving left neighbour ends and its  *)
(* surviving right neighbour begins exactly at that span.                  *)
(***************************************************************************)
IsStrong(hori) == hori.type = "GlyphSpace" /\ hori.matches[1].match < StrongLimit

HasStrong(spaces) ==
    \E y \in 1..Len(spaces) : \E x \in 1..Len(spaces[y].contents) :
        IsStrong(spaces[y].contents[x])

StrongSpansKept(spaces) ==
    \A y \in 1..Len(spaces) :
        LET contents == spaces[y].contents
        IN \A x \in 1..Len(contents) :
               IsStrong(contents[x]) =>
                   LET span == horizontal_span(contents[x].matches[1].pos)
                   IN /\ contents[x].span = span
                      /\ x > 1 => contents[x - 1].span.end = span.beg
                      /\ x < Len(contents) => contents[x + 1].span.beg = span.end

C20_StrongSpansKept ==
    (outcome.op = "constrain" /\ HasStrong(outcome.given)) =>
        /\ outcome.raised = "none"
        /\ StrongSpansKept(outcome.value)

\* The pass never returns a list that is not empty.
ConstrainAlwaysRaises ==
    (outcome.op = "constrain" /\ outcome.given # <<>>) => outcome.raised = "TypeError"
\* What its assignments leave behind when it raises.
StrongSpansAtRaise ==
    (outcome.op = "constrain" /\ HasStrong(outcome.given)) => StrongSpansKept(outcome.value)

(***************************************************************************)
(* C21.  Segmenter partition: the y-spans of the VerticalSpaces that       *)
(* from_printout returns are contiguous in order, do not overlap and cover *)
(* exactly [0, printout.length); inside each VerticalSpace the x-spans of  *)
(* its HorizontalSpaces cover [0, printout.width) in the same way.         *)
(***************************************************************************)
\* The spans of list run from lo to hi, each beginning where the one before
\* it ends, none of them reversed.
Chain(list, lo, hi) ==
    /\ Len(list) > 0
    /\ list[1].span.beg = lo
    /\ list[Len(list)].span.end = hi
    /\ \A i \in 1..Len(list) : list[i].span.beg <= list[i].span.end
    /\ \A i \in 1..(Len(list) - 1) : list[i].span.end = list[i + 1].span.beg

Segmented == outcome.op = "from_printout"

C21_SegmenterPartition ==
    Segmented =>
        /\ Chain(outcome.value, 0, Len(bitmap))
        /\ \A y \in 1..Len(outcome.value) :
               Chain(outcome.value[y].contents, 0, DescWidth)

C21_Witness ==
    /\ Segmented
    /\ Len(outcome.value) = 3
    /\ \E y \in 1..3 : Len(outcome.value[y].contents) = 3

(***************************************************************************)
(* C22.  At the output of the segmenter adjacent runs differ in activity:  *)
(* each VerticalSpace is a band of rows that are all burned somewhere or   *)
(* all blank and consecutive bands differ; in a band each UnknownSpace     *)
(* spans columns that all have a burned pixel in the band, each WhiteSpace *)
(* columns that have none, and consecutive HorizontalSpaces differ in      *)
(* variant; so each run is maximal.                                        *)
(***************************************************************************)
BurnedRow(r) == \E c \in 1..DescWidth : bitmap[r][c] # 0
BurnedCol(band, c) == \E r \in (band.span.beg + 1)..band.span.end : bitmap[r][c] # 0
RowsOf(band) == (band.span.beg + 1)..band.span.end
ColsOf(hori) == (hori.span.beg + 1)..hori.span.end

BandBurned(band) == \A r \in RowsOf(band) : BurnedRow(r)
BandBlank(band) == \A r \in RowsOf(band) : ~BurnedRow(r)

C22_AdjacentRunsDiffer ==
    Segmented =>
        LET bands == outcome.value
        IN /\ \A y \in 1..Len(bands) : BandBurned(bands[y]) \/ BandBlank(bands[y])
           /\ \A y \in 1..(Len(bands) - 1) :
                  BandBurned(bands[y]) # BandBurned(bands[y + 1])
           /\ \A y \in 1..Len(bands) :
                  LET contents == bands[y].contents
                  IN /\ \A x \in 1..Len(contents) :
                            /\ contents[x].type \in {"UnknownSpace", "WhiteSpace"}
                            /\ contents[x].type = "UnknownSpace" =>
                                   \A c \in ColsOf(contents[x]) : BurnedCol(bands[y], c)
                            /\ contents[x].type = "WhiteSpace" =>
                                   \A c \in ColsOf(contents[x]) : ~BurnedCol(bands[y], c)
                     /\ \A x \in 1..(Len(contents) - 1) :
                            contents[x].type # contents[x + 1].type

C22_Witness ==
    /\ Segmented
    /\ Len(outcome.value) = 3
    /\ \E y \in 1..3 :
           /\ Len(outcome.value[y].contents) = 2
           /\ outcome.value[y].span.end - outcome.value[y].span.beg = 1
    /\ \E y \in 1..3 : Len(outcome.value[y].contents) = 1

(***************************************************************************)
(* C23.  An empty bitmap (zero rows) produces no VerticalSpaces:           *)
(* from_printout returns an empty list.                                    *)
(***************************************************************************)
C23_EmptyBitmapNoSpaces ==
    (Segmented /\ bitmap = <<>>) => outcome.value = <<>>

\* What it returns: one VerticalSpace without rows that holds one WhiteSpace
\* as wide as the printout.
EmptyBitmapOneSpace ==
    (Segmented /\ bitmap = <<>>) =>
        outcome.value = <<VerticalSpace(Span(0, 0), <<WhiteSpace(Span(0, DescWidth))>>)>>

(***************************************************************************)
(* C24.  Matcher whitespace: if the target region is all zeros, the        *)
(* matcher returns exactly one match, with score 0 and a char string of    *)
(* exactly floor(region_width / W) space characters, region_width the      *)
(* width of the target region and W the font's glyph width.                *)
(***************************************************************************)
Matched == outcome.op \in {"parse_image", "parse_image_character_bbox"}
GlyphWidthOf(font) ==
    IF "glyph_width" \in DOMAIN font THEN font.glyph_width ELSE font.width

WhitespaceMatch ==
    /\ outcome.raised = "none"
    /\ Len(outcome.value) = 1
    /\ outcome.value[1].match = 0
    /\ outcome.value[1].char =
           Spaces(BoxWidth(outcome.given[1]) \div GlyphWidthOf(fonts[1]))

C24_WhitespaceMatch ==
    (Matched /\ ~AnyBurned(Crop(bitmap, outcome.given[1]))) => WhitespaceMatch

\* Font.parse_image of a Font does so.
ParseImageWhitespace ==
    (/\ outcome.op = "parse_image"
     /\ "glyph_width" \in DOMAIN fonts[1]
     /\ ~AnyBurned(Crop(bitmap, outcome.given[1]))) => WhitespaceMatch
ParseImageWhitespace_Witness ==
    /\ outcome.op = "parse_image"
    /\ "glyph_width" \in DOMAIN fonts[1]
    /\ ~AnyBurned(Crop(bitmap, outcome.given[1]))
    /\ AnyBurned(bitmap)
    /\ Len(outcome.value[1].char) = 1
    /\ BoxWidth(outcome.given[1]) = 2

\* parse_image_character_bbox raises for every Font of font.py; for an
\* object that has the attributes it counts the spaces of the whole bitmap's
\* width, and only when the padded region is blank.
BBoxRaisesForFont ==
    (outcome.op = "parse_image_character_bbox" /\ "glyph_width" \in DOMAIN fonts[1])
        => outcome.raised = "AttributeError"
BBoxCountsWholeWidth ==
    (/\ outcome.op = "parse_image_character_bbox"
     /\ "width" \in DOMAIN fonts[1]
     /\ Len(outcome.value) = 1
     /\ outcome.value[1].code_point = 32)
        => outcome.value[1].char = Spaces(DescWidth \div fonts[1].width)

(***************************************************************************)
(* C25.  Bold derivation mirrors each set pixel into the pixel to its      *)
(* right: for every glyph row held as 2 bytes (16 columns), output column  *)
(* c is set iff input column c is set or input column c-1 is set, the      *)
(* carry from column 7 into column 8 coming from the original byte 0; so a *)
(* row with a single column set yields exactly two adjacent columns set.   *)
(***************************************************************************)
Bolded == outcome.op = "into_bold" /\ outcome.raised = "none"

\* The columns (0-based) set in a row
SetColumns(row) == {c \in 0..(Len(row) - 1) : row[c + 1] # 0}

\* The rows of 16 columns of the loaded font's glyphs, each with its bold row
BoldPairs ==
    UNION {{<<fonts[1]._glyphs[g][r], fonts[2]._glyphs[g][r]>> :
               r \in {r \in 1..Len(fonts[1]._glyphs[g]) :
                         Len(fonts[1]._glyphs[g][r]) = 16}} :
           g \in 1..Len(fonts[1]._glyphs)}

MirrorsRight(p) ==
    /\ Len(p[2]) = 16
    /\ \A c \in 0..15 :
           c \in SetColumns(p[2]) <=>
               (c \in SetColumns(p[1]) \/ (c >= 1 /\ c - 1 \in SetColumns(p[1])))

C25_BoldMirrorsRight ==
    Bolded =>
        \A p \in BoldPairs :
            /\ MirrorsRight(p)
            /\ \A c \in 0..15 :
                   SetColumns(p[1]) = {c} => SetColumns(p[2]) = {c, c + 1}

\* Amended: the mirror of column 15 falls outside the row.
C25_BoldMirrorsRightInRow ==
    Bolded =>
        \A p \in BoldPairs :
            /\ MirrorsRight(p)
            /\ \A c \in 0..14 :
                   SetColumns(p[1]) = {c} => SetColumns(p[2]) = {c, c + 1}
            /\ SetColumns(p[1]) = {15} => SetColumns(p[2]) = {15}

C25_Witness ==
    /\ Bolded
    /\ \E p \in BoldPairs : SetColumns(p[1]) = {7} /\ SetColumns(p[2]) = {7, 8}
    /\ \E p \in BoldPairs : SetColumns(p[1]) = {15}

(***************************************************************************)
(* C26.  Every glyph bitmap of a font loaded from JSON, and of its bold    *)
(* derivation, has exactly W = glyph_width columns and H = glyph_height    *)
(* rows, for every glyph width; bolding preserves W, H and the code-point  *)
(* set.                                                                    *)
(***************************************************************************)
ExactSize(font) ==
    \A g \in 1..Len(font._glyphs) :
        /\ Len(font._glyphs[g]) = font.glyph_height
        /\ \A r \in 1..Len(font._glyphs[g]) : Len(font._glyphs[g][r]) = font.glyph_width

C26_GlyphsExactSize ==
    /\ outcome.op = "from_json" => ExactSize(fonts[1])
    /\ outcome.op = "into_bold" =>
           /\ outcome.raised = "none"
           /\ ExactSize(fonts[2])
           /\ fonts[2].glyph_width = fonts[1].glyph_width
           /\ fonts[2].glyph_height = fonts[1].glyph_height
           /\ fonts[2]._code_points = fonts[1]._code_points

\* What the code gives: 8 * ceil(W / 8) columns; no bold font when that is 8.
GlyphsPaddedSize ==
    \A f \in 1..Len(fonts) : \A g \in 1..Len(fonts[f]._glyphs) :
        /\ Len(fonts[f]._glyphs[g]) = fonts[f].glyph_height
        /\ \A r \in 1..Len(fonts[f]._glyphs[g]) :
               Len(fonts[f]._glyphs[g][r]) = 8 * RowBytes(fonts[f].glyph_width)
BoldRaisesForOneByteRows ==
    outcome.op = "into_bold" =>
        (outcome.raised = "IndexError" <=> RowBytes(fonts[1].glyph_width) = 1)

(***************************************************************************)
(* C27.  Each outbound command's wire form is exactly the three bytes      *)
(* 0x02, B, 0x03 with B the command's byte, and no command byte is a       *)
(* control byte; hence feeding a command's wire form to the inbound        *)
(* decoder yields exactly one frame, the single byte B.  So what the       *)
(* worker has written decodes to one such frame per command sent.          *)
(***************************************************************************)
RECURSIVE CommandBytes(_)
CommandBytes(reqs) ==
    IF reqs = <<>> THEN <<>>
    ELSE (IF Head(reqs) \in SetRequests THEN <<<<CommandOf(Head(reqs))>>>> ELSE <<>>)
            \o CommandBytes(Tail(reqs))

C27_CommandWireForm ==
    /\ \A cmd \in Commands :
           /\ CommandToBytes(cmd) = <<2, cmd, 3>>
           /\ cmd \notin {2, 3, 27}
           /\ OneDecoder(NewFrameProtocol, CommandToBytes(cmd)) = <<<<cmd>>>>
    /\ Len(written) = 3 * Len(CommandBytes(slog.handled))
    /\ OneDecoder(NewFrameProtocol, written) = CommandBytes(slog.handled)

C27_Witness ==
    /\ Len(written) = 6
    /\ OneDecoder(NewFrameProtocol, written)
           = <<<<Command_SetPaperIn>>, <<Command_RecordingStop>>>>

(***************************************************************************)
(* C28.  While Processing, the byte that follows an unescaped ESCAPE is    *)
(* appended literally to the frame buffer, also when it is 0x02, 0x03 or   *)
(* 0x1B, without emitting a frame or leaving Processing, and the ESCAPE    *)
(* byte itself is never part of the payload; so the wire bytes 0x1B 0x1B   *)
(* inside a frame contribute exactly one 0x1B to the emitted frame.        *)
(***************************************************************************)
EscapedLiteral ==
    (parser.state = Processing /\ parser.escape_next /\ fed' # fed) =>
        /\ parser'.frame_buffer = Append(parser.frame_buffer, fed'[Len(fed')])
        /\ parser'.state = Processing
        /\ ~parser'.escape_next
        /\ last' = None
        /\ emitted' = emitted

EscapeNotPayload ==
    (/\ parser.state = Processing
     /\ ~parser.escape_next
     /\ fed' # fed
     /\ fed'[Len(fed')] = ESCAPE) =>
        /\ parser'.frame_buffer = parser.frame_buffer
        /\ parser'.state = Processing
        /\ parser'.escape_next
        /\ last' = None
        /\ emitted' = emitted

EscapedPair ==
    \A body \in {<<>>, <<FRAME_END>>, <<FRAME_START>>} :
        fed = <<FRAME_START, ESCAPE, ESCAPE>> \o
                  (IF body = <<>> THEN <<>> ELSE <<ESCAPE>> \o body) \o <<FRAME_END>>
            => emitted = <<<<ESCAPE>> \o body>>

C28_EscapedByteLiteral == [][EscapedLiteral /\ EscapeNotPayload]_vars /\ []EscapedPair

C28_Witness ==
    /\ fed = <<FRAME_START, ESCAPE, ESCAPE, ESCAPE, FRAME_END, FRAME_END>>
    /\ emitted = <<<<ESCAPE, FRAME_END>>>>

(***************************************************************************)
(* C29.  Frames are applied to the builder in arrival order and dispatched *)
(* by leading byte only: each 'F' frame causes exactly one line_advance,   *)
(* each 'B' frame exactly one line_reverse, each 'U' frame exactly one     *)
(* burn_line, and a completed frame with another leading byte, Acknowledge *)
(* and the empty frame included, leaves the builder unchanged.  A          *)
(* burn_line that raises counts as made and leaves the builder as it was.  *)
(***************************************************************************)
ByLeadingByte(b, frame) ==
    IF StartsWith(frame, Repsonse_MotorAdvance) THEN LineAdvance(b)
    ELSE IF StartsWith(frame, Repsonse_MotorReverse) THEN LineReverse(b)
    ELSE IF StartsWith(frame, Repsonse_BurnLine)
    THEN LET line == UnpackBits(Reverse(Tail(frame)))
         IN IF BurnLineRaises(b, line) THEN b ELSE BurnLine(b, line)
    ELSE b

RECURSIVE AllByLeadingByte(_, _)
AllByLeadingByte(b, frames) ==
    IF frames = <<>> THEN b
    ELSE AllByLeadingByte(ByLeadingByte(b, Head(frames)), Tail(frames))

C29_DispatchByLeadingByte ==
    printout = AllByLeadingByte(NewPrintoutBuilder, log.decoded)

\* It is so as long as no burn_line has raised.
DispatchedUntilRaise ==
    printout = AllByLeadingByte(NewPrintoutBuilder, log.applied)
DispatchedUntilRaise_Witness ==
    /\ Len(log.applied) = 2
    /\ log.applied[1] = <<>>
    /\ StartsWith(log.applied[2], Repsonse_MotorReverse)
    /\ Len(printout.image) = 2

(***************************************************************************)
(* C30.  For a BurnLine frame with a full payload (48 bytes in the source, *)
(* HeadBytes here) the payload is reversed byte-wise and unpacked          *)
(* MSB-first: bit b (b = 0 the most significant) of payload byte i sets    *)
(* mask column 8 * (47 - i) + b; the mask is ORed into the row at the      *)
(* cursor only, and no other row and not the cursor changes.               *)
(***************************************************************************)
\* The mask the claim gives for a payload of n bytes; column and byte index
\* are 0-based.
ClaimMask(payload, n) ==
    [col \in 1..(8 * n) |->
        LET i == n - 1 - ((col - 1) \div 8)
            b == (col - 1) % 8
        IN (payload[i + 1] \div (2 ^ (7 - b))) % 2]

\* A process call that decodes exactly one frame more, a BurnLine frame
\* with a full payload, everything before it applied.
BurnStep ==
    /\ log.applied = log.decoded
    /\ Len(log'.decoded) = Len(log.decoded) + 1
    /\ StartsWith(log'.decoded[Len(log'.decoded)], Repsonse_BurnLine)
    /\ Len(log'.decoded[Len(log'.decoded)]) = 1 + HeadBytes

BurnedAtCursorOnly ==
    BurnStep =>
        LET mask == ClaimMask(Tail(log'.decoded[Len(log'.decoded)]), HeadBytes)
        IN /\ ~log'.raised
           /\ printout'.line = printout.line
           /\ Len(printout'.image) = Len(printout.image)
           /\ \A r \in 1..Len(printout.image) :
                  printout'.image[r] =
                      IF r = printout.line + 1
                      THEN [c \in 1..HEAD_WIDTH |-> Or(printout.image[r][c], mask[c])]
                      ELSE printout.image[r]

\* The same for a head of two bytes, where the reversal shows.
WideBuilder == [image |-> <<[c \in 1..16 |-> 0], [c \in 1..16 |-> 0]>>, line |-> 1]
ReversedByteWise ==
    \A payload \in [1..2 -> {Repsonse_MotorAdvance, Repsonse_BurnLine, 128}] :
        LET r == Dispatch(WideBuilder, <<Repsonse_BurnLine>> \o payload)
        IN /\ ~r.raised
           /\ r.printout.line = 1
           /\ r.printout.image = <<[c \in 1..16 |-> 0], ClaimMask(payload, 2)>>

C30_BurnLineMask == [][BurnedAtCursorOnly]_vars /\ []ReversedByteWise

C30_Witness ==
    LET payload == [i \in 1..HeadBytes |-> 129]
        burn == <<Repsonse_BurnLine>> \o payload
    IN /\ log.decoded = <<burn, <<Repsonse_MotorAdvance>>, burn>>
       /\ log.applied = log.decoded
       /\ printout.line = 1
       /\ printout.image = <<ClaimMask(payload, HeadBytes), ClaimMask(payload, HeadBytes)>>

(***************************************************************************)
(* C31.  In every state reachable by line_advance, line_reverse,           *)
(* burn_line, get_image and clear the builder holds at least one row and   *)
(* 0 <= line < number of rows, so burn_line addresses an existing row.     *)
(***************************************************************************)
C31_CursorOnARow ==
    /\ Len(printout.image) >= 1
    /\ 0 <= printout.line
    /\ printout.line < Len(printout.image)

\* A burn at the cursor after a take left one row and the paper moved on.
C31_Witness ==
    /\ op = "burn_line"
    /\ printout.line = 1
    /\ Len(printout.image) = 2
    /\ printout.image[2] # ZeroRow
    /\ track.snap = None
    /\ nops >= 5

(***************************************************************************)
(* C32.  In every reachable state of the decoder escape_next is true only  *)
(* while the state is Processing: whenever the decoder is Idle escape_next *)
(* is false, so a newly started frame never inherits a pending escape from *)
(* an earlier (completed or aborted) frame.                                *)
(***************************************************************************)
C32_EscapeOnlyWhileProcessing ==
    /\ parser.escape_next => parser.state = Processing
    /\ parser.state = Idle => ~parser.escape_next

\* A frame that used an escape was aborted, one was completed, and an ESCAPE
\* arrived between frames: the decoder is Idle with no escape pending.
C32_Witness ==
    /\ fed = <<FRAME_START, ESCAPE, FRAME_END, FRAME_END, ESCAPE,
               FRAME_START, FRAME_START>>
    /\ emitted = <<<<FRAME_END>>>>
    /\ parser.state = Idle
    /\ ~parser.escape_next

(***************************************************************************)
(* C33.  For any event sequence that contains no MotorReverse, with        *)
(* take_printout calls interleaved at arbitrary points, the vertical       *)
(* concatenation of the non-empty snapshots the takes return (plus a final *)
(* take) equals the snapshot get_printout returns for the same events with *)
(* no takes: no row is lost, duplicated, reordered or returned before its  *)
(* burns are complete.                                                     *)
(***************************************************************************)
RowsOfSnapshot(r) == IF r = None THEN <<>> ELSE r.val

C33_TakesConcatenate ==
    track.noReverse =>
        track.taken \o RowsOfSnapshot(GetImage(printout))
            = RowsOfSnapshot(GetImage(track.whole))

\* Two takes returned one burned row each, the second other than the first.
C33_Witness ==
    /\ track.noReverse
    /\ op = "take_printout"
    /\ ret # None
    /\ Len(track.taken) = 2
    /\ track.taken[1] # Multiply255(<<ZeroRow>>)[1]
    /\ track.taken[2] # Multiply255(<<ZeroRow>>)[1]
    /\ track.taken[1] # track.taken[2]
    /\ track.taken = RowsOfSnapshot(GetImage(track.whole))

(***************************************************************************)
(* C34.  After every process call the carry-over buffer holds only the     *)
(* bytes of the frame currently being assembled, starting at its           *)
(* FRAME_START, and is empty when the decoder would be Idle: bytes         *)
(* discarded during resynchronisation and bytes of an aborted frame are    *)
(* not retained, so the carry-over never grows beyond one open frame.      *)
(***************************************************************************)
\* The decoder after a new FrameProtocol was given bytes.
RECURSIVE DecoderAfter(_, _)
DecoderAfter(p, bytes) ==
    IF bytes = <<>> THEN p
    ELSE DecoderAfter(ProcessByte(p, Head(bytes)).p, Tail(bytes))

\* d is one open frame: it starts a frame and the decoder stays in it.
OneOpenFrame(d) ==
    /\ d # <<>>
    /\ d[1] = FRAME_START
    /\ \A k \in 1..Len(d) :
           DecoderAfter(NewFrameProtocol, SubSeq(d, 1, k)).state = Processing

C34_CarryOverOneOpenFrame ==
    /\ DecoderAfter(NewFrameProtocol, data).state = Idle => data = <<>>
    /\ data # <<>> => OneOpenFrame(data)

\* What is kept is every byte read since the last completed frame, none of
\* which completes a frame.
CarryOverSinceLastFrame ==
    /\ \E k \in 0..Len(log.wire) : data = SubSeq(log.wire, k + 1, Len(log.wire))
    /\ DecodeLoop(NewFrameProtocol, <<>>, <<>>, data).frames = <<>>
CarryOverSinceLastFrame_Witness ==
    /\ data = <<Repsonse_MotorAdvance, FRAME_START, FRAME_START, Repsonse_BurnLine>>
    /\ Len(log.decoded) = 1

(***************************************************************************)
(* C35.  When two consumers call get_printout / take_printout /            *)
(* clear_printout on the same server concurrently, each call returns the   *)
(* response the worker produced for its own request: a response is never   *)
(* delivered to a caller whose request it does not answer, for every       *)
(* interleaving of the callers' put and get steps with the worker's steps. *)
(***************************************************************************)
C35_OwnResponse == ~slog.astray

\* The responses wait on the printout queue in the order of their requests,
\* and with one consumer each call receives its own.
ResponsesInRequestOrder ==
    /\ Len(slog.answers) = Len(printoutQ)
    /\ ~slog.astray => \A c \in Callers :
           Cardinality({i \in 1..Len(slog.owners) : slog.owners[i] = c})
             + Cardinality({i \in 1..Len(slog.answers) : slog.answers[i] = c})
             <= (IF callers[c] = "idle" THEN 0 ELSE 1)
ResponsesInRequestOrder_Witness ==
    /\ slog.answers = <<1, 2>>
    /\ callers = [c \in Callers |-> "waiting"]

(***************************************************************************)
(* C36.  extend preserves the stable classifications of earlier rows:      *)
(* every VerticalSpace of the descriptor except its last one is left       *)
(* unchanged by extend (same y-span, same HorizontalSpaces and matches,    *)
(* same position in the list), and the newly produced VerticalSpaces are   *)
(* appended after them with y-spans starting at the discarded              *)
(* VerticalSpace's beg: extend returns, having replaced the last           *)
(* VerticalSpace by the spaces of the rows from its beg to the end of the  *)
(* extended printout.                                                      *)
(***************************************************************************)
C36_ExtendKeepsEarlierRows ==
    outcome.op = "extend" =>
        LET n == Len(outcome.given)
            roi == <<Span(outcome.given[n].span.beg, Len(bitmap) + Len(extension))>>
        IN /\ outcome.raised = "none"
           /\ Len(outcome.value) >= n
           /\ SubSeq(outcome.value, 1, n - 1) = SubSeq(outcome.given, 1, n - 1)
           /\ outcome.value[n].span.beg = outcome.given[n].span.beg
           /\ Len(outcome.value) - (n - 1)
                  = Len(from_printout(bitmap \o extension, roi))

\* The contents are what they were, the last VerticalSpace included.
ExtendLeavesContents ==
    outcome.op = "extend" =>
        /\ outcome.raised = "AttributeError"
        /\ outcome.value = outcome.given
ExtendLeavesContents_Witness ==
    /\ outcome.op = "extend"
    /\ Len(outcome.given) = 2
    /\ extension # <<>>
    /\ \E x \in 1..Len(outcome.given[1].contents) :
           outcome.given[1].contents[x].type = "GlyphSpace"

(***************************************************************************)
(* C37.  When the segmenter is called with a vertical ROI                  *)
(* [roi.beg, roi.end), all emitted VerticalSpace y-spans are offset by     *)
(* roi.beg: they equal the spans obtained by segmenting rows               *)
(* roi.beg..roi.end-1 on their own, shifted by roi.beg, and together cover *)
(* exactly [roi.beg, roi.end).                                             *)
(***************************************************************************)
SegmentedRoi == outcome.op = "from_printout roi"

Shifted(spaces, by) ==
    [i \in 1..Len(spaces) |->
        [spaces[i] EXCEPT !.span = Span(@.beg + by, @.end + by)]]

C37_RoiSpansOffset ==
    SegmentedRoi =>
        LET roi == outcome.given[1]
            own == SubSeq(bitmap, roi.beg + 1, roi.end)
        IN /\ outcome.value = Shifted(from_printout(own, <<>>), roi.beg)
           /\ Chain(outcome.value, roi.beg, roi.end)
           /\ \A y \in 1..Len(outcome.value) :
                  /\ BandBurned(outcome.value[y]) \/ BandBlank(outcome.value[y])
                  /\ outcome.value[y].contents =
                        parse_horizontal(SubSeq(bitmap, outcome.value[y].span.beg + 1,
                                                outcome.value[y].span.end))

\* A ROI that starts below the top and holds a blank and a burned band.
C37_Witness ==
    /\ SegmentedRoi
    /\ outcome.given[1] = Span(1, 3)
    /\ Len(outcome.value) = 2
    /\ outcome.value[1].span = Span(1, 2)
    /\ outcome.value[2].span = Span(2, 3)
    /\ BandBurned(outcome.value[2])
    /\ BurnedRow(1)

(***************************************************************************)
(* C38.  After the constrain pass the returned tree contains no            *)
(* HorizontalSpace of zero (or negative) width and no VerticalSpace of     *)
(* zero (or negative) height, whichever spaces had strong matches and      *)
(* however neighbouring spans were clipped: the pass returns, and what it  *)
(* returns holds no such space.                                            *)
(***************************************************************************)
Constrained == outcome.op = "constrain"

NoEmptySpace(spaces) ==
    \A y \in 1..Len(spaces) :
        /\ spaces[y].span.end > spaces[y].span.beg
        /\ \A x \in 1..Len(spaces[y].contents) :
               spaces[y].contents[x].span.end > spaces[y].contents[x].span.beg

C38_NoEmptySpaceReturned ==
    Constrained =>
        /\ outcome.raised = "none"
        /\ NoEmptySpace(outcome.value)

\* In a VerticalSpace that holds a strong match the HorizontalSpaces without
\* width are dropped before the pass raises.
EmptyHorizontalsDropped ==
    Constrained =>
        \A y \in 1..Len(outcome.given) :
            (\E x \in 1..Len(outcome.given[y].contents) :
                 IsStrong(outcome.given[y].contents[x]))
            => \A x \in 1..Len(outcome.value[y].contents) :
                   outcome.value[y].contents[x].span.end
                       > outcome.value[y].contents[x].span.beg
\* A VerticalSpace clipped to no height is left in the list.
EmptyVerticalLeft_Witness ==
    /\ Constrained
    /\ NoEmptySpace(outcome.given)
    /\ Len(outcome.value) = Len(outcome.given)
    /\ \E y \in 1..Len(outcome.value) :
           outcome.value[y].span.end <= outcome.value[y].span.beg

(***************************************************************************)
(* C39.  After the constrain pass, within every VerticalSpace the          *)
(* remaining HorizontalSpaces are in ascending x order and pairwise        *)
(* non-overlapping (each span's end <= the next span's beg), and the       *)
(* remaining VerticalSpaces are in ascending y order and pairwise          *)
(* non-overlapping, even when a clipped neighbour was dropped: the pass    *)
(* returns, and what it returns is ordered so.                             *)
(***************************************************************************)
Ascending(list) ==
    \A i \in 1..(Len(list) - 1) :
        /\ list[i].span.beg <= list[i + 1].span.beg
        /\ list[i].span.end <= list[i + 1].span.beg

AllAscending(spaces) ==
    /\ Ascending(spaces)
    /\ \A y \in 1..Len(spaces) : Ascending(spaces[y].contents)

C39_SpacesAscending ==
    Constrained =>
        /\ outcome.raised = "none"
        /\ AllAscending(outcome.value)

\* What the assignments of the pass leave behind when it raises is ordered so.
AscendingAtRaise == Constrained => AllAscending(outcome.value)
AscendingAtRaise_Witness ==
    /\ Constrained
    /\ HasStrong(outcome.given)
    /\ outcome.value # outcome.given
    /\ \E y \in 1..Len(outcome.value) :
           Len(outcome.value[y].contents) < Len(outcome.given[y].contents)

(***************************************************************************)
(* C40.  For each kept (non-whitespace) match, pos is the box of exactly   *)
(* W by H whose top-left corner is the best template offset translated     *)
(* from padded-image coordinates into source-bitmap coordinates (padded    *)
(* box origin + offset), for every font width and height (odd or even)     *)
(* and every target region size, whenever that box lies inside the bitmap  *)
(* so that clamping changes nothing.                                       *)
(***************************************************************************)
BBoxReturned ==
    /\ outcome.op = "parse_image_character_bbox"
    /\ outcome.raised = "none"

\* The box the claim gives for the i-th glyph that passed the filters.
BoxAtOffset(i) ==
    LET origin == PaddedBox(bitmap, outcome.given[1], fonts[1]).p1
        p1 == PointAdd(origin, outcome.given[2][i].offset)
    IN BoundingBox(p1, PointAdd(p1, Point(fonts[1].width, fonts[1].height)))

InsideBitmap(box) ==
    box = Clamp(box, BoundingBox(Point(0, 0), Point(DescWidth, Len(bitmap))))

KeptMatch(i) == outcome.value[i].code_point # 32

C40_PosAtBestOffset ==
    BBoxReturned =>
        \A i \in 1..Len(outcome.value) :
            (KeptMatch(i) /\ InsideBitmap(BoxAtOffset(i)))
                => outcome.value[i].pos = BoxAtOffset(i)

\* It is that box for a font of even width and height and a target region of
\* exactly the font's size.
PosOfFontSizedRegion ==
    BBoxReturned =>
        \A i \in 1..Len(outcome.value) :
            (/\ KeptMatch(i)
             /\ fonts[1].width % 2 = 0 /\ fonts[1].height % 2 = 0
             /\ BoxWidth(outcome.given[1]) = fonts[1].width
             /\ BoxHeight(outcome.given[1]) = fonts[1].height)
                => outcome.value[i].pos = BoxAtOffset(i)
PosOfFontSizedRegion_Witness ==
    /\ BBoxReturned
    /\ Len(outcome.value) = 1
    /\ KeptMatch(1)
    /\ fonts[1].width = 2 /\ fonts[1].height = 2
    /\ outcome.given[1] = BoundingBox(Point(1, 0), Point(3, 2))
    /\ outcome.value[1].pos = outcome.given[1]

\* Its width and height are never odd: for a font one pixel wide the box has
\* no width.
PosOfEvenSize ==
    BBoxReturned =>
        \A i \in 1..Len(outcome.value) :
            KeptMatch(i) =>
                /\ BoxWidth(outcome.value[i].pos) <= 2 * (fonts[1].width \div 2)
                /\ BoxHeight(outcome.value[i].pos) <= 2 * (fonts[1].height \div 2)

====
